---- MODULE Spec2Model ----
(***************************************************************************)
(* Model of app.py (Agri-Analytics dashboard): the value normalizer        *)
(* clean_val, the header detection and column-name construction of         *)
(* load_and_process_data, the worksheet loop of the loader, and the script *)
(* runs of a session over the cached loader.                               *)
(*                                                                         *)
(* Text is modelled as a sequence of one-character strings, so that        *)
(* str.strip, str.lower, re.sub, re.search, float() and str(float) are     *)
(* computed character by character as Python computes them.                *)
(***************************************************************************)
EXTENDS Integers, Sequences, FiniteSets, TLC

VARIABLES
    val, out, prev,                               \* a cell, clean_val of it, the result before
    title, raw, h_idx, res,                       \* one worksheet through the loop body
    row1, row2, cols,                             \* a header row, the row below, the names
    worksheets, all_data, sheet_categories, err,  \* the spreadsheet and the loader's result
    up, now, cache,                               \* the source answers, the clock, st.cache_data
    page, clicked, runs,                          \* the radio, the refresh button, script runs
    shown, rendered, opens,                       \* of the current run: errors, output, opens
    window,                                       \* loader calls of the current cache window
    ia_history, ia_question,                      \* st.session_state of the assistant page
    typed, pressed, category,                     \* chat input, suggestion button, selectbox
    has_key, stale_input,                         \* the API key is set; an old chat input shows
    crashed, appended,                            \* of the current run: uncaught error, entries
    prompt, response,                             \* of the current run: text sent, text returned
    pc

cleanVars == <<val, out, prev>>
sheetVars == <<title, raw, h_idx, res>>
colVars == <<row1, row2, cols>>
loadVars == <<worksheets, all_data, sheet_categories, err>>

runVars == <<up, now, cache, page, clicked, runs, shown, rendered, opens, window>>

chatVars ==
    <<ia_history, ia_question, typed, pressed, category, has_key, stale_input,
      crashed, appended, prompt, response>>

vars == <<cleanVars, sheetVars, colVars, loadVars, runVars, chatVars, pc>>

(***************************************************************************)
(* Bounds of the model.                                                    *)
(***************************************************************************)
MaxLen == 4
MaxZeros == 16
MaxRows == 2
MaxCols == 2
MaxPad == 10
MaxNameCols == 4
MaxSheets == 2
MaxTime == 900
Tick == 300
MaxRuns == 6
MaxPromptRows == 12
CellWidth == 200

(***************************************************************************)
(* Characters.                                                             *)
(***************************************************************************)
NBSP == "nbsp"

Digits == {"0", "1", "2", "3", "4", "5", "6", "7", "8", "9"}

IsDigit(ch) == ch \in Digits

IsSpace(ch) == ch \in {" ", "\t", "\n", NBSP}

RECURSIVE Repeat(_, _)
Repeat(ch, n) == IF n <= 0 THEN <<>> ELSE <<ch>> \o Repeat(ch, n - 1)

\* str.strip(): drop leading and trailing whitespace
RECURSIVE LStrip(_)
LStrip(s) == IF s # <<>> /\ IsSpace(Head(s)) THEN LStrip(Tail(s)) ELSE s

RECURSIVE RStrip(_)
RStrip(s) ==
    IF s # <<>> /\ IsSpace(s[Len(s)]) THEN RStrip(SubSeq(s, 1, Len(s) - 1)) ELSE s

Strip(s) == RStrip(LStrip(s))

\* number of consecutive digits of s starting at position p
RECURSIVE DigitRun(_, _)
DigitRun(s, p) ==
    IF p <= Len(s) /\ IsDigit(s[p]) THEN 1 + DigitRun(s, p + 1) ELSE 0

(***************************************************************************)
(* Python values.  A cell is None, NaN or a string; a float is kept as its *)
(* shortest decimal form: sign, significant digits d (no leading and no    *)
(* trailing zero, empty for zero) and decimal exponent e, the value being  *)
(* the integer written d times 10^e.  This form is exact for binary64 up   *)
(* to DBL_DIG = 15 significant digits.                                     *)
(***************************************************************************)
NoneVal == [kind |-> "none", s |-> <<>>]
NaNVal == [kind |-> "nan", s |-> <<>>]
StrVal(s) == [kind |-> "str", s |-> s]

Float(neg, d, e) == [kind |-> "float", neg |-> neg, d |-> d, e |-> e]
Zero == Float(FALSE, <<>>, 0)
NaNFloat == [kind |-> "nan", neg |-> FALSE, d |-> <<>>, e |-> 0]
InfFloat(neg) == [kind |-> "inf", neg |-> neg, d |-> <<>>, e |-> 0]
ValueError == [kind |-> "raise", neg |-> FALSE, d |-> <<>>, e |-> 0]
Unset == [kind |-> "unset", neg |-> FALSE, d |-> <<>>, e |-> 0]

\* Python's == on two floats (-0.0 == 0.0, nan is equal to nothing)
FloatEq(a, b) ==
    /\ a.kind \in {"float", "inf"}
    /\ a.kind = b.kind
    /\ a.d = b.d
    /\ a.e = b.e
    /\ (a.kind = "float" /\ a.d = <<>>) \/ a.neg = b.neg

RECURSIVE DropLeadingZeros(_)
DropLeadingZeros(d) ==
    IF d # <<>> /\ Head(d) = "0" THEN DropLeadingZeros(Tail(d)) ELSE d

RECURSIVE TrailingZeros(_)
TrailingZeros(d) ==
    IF d # <<>> /\ d[Len(d)] = "0"
    THEN 1 + TrailingZeros(SubSeq(d, 1, Len(d) - 1))
    ELSE 0

\* the float whose value is the digit string d times 10^e
MakeFloat(neg, digits, e) ==
    LET d1 == DropLeadingZeros(digits)
        tz == TrailingZeros(d1)
        d2 == SubSeq(d1, 1, Len(d1) - tz)
    IN  IF d2 = <<>> THEN Float(neg, <<>>, 0) ELSE Float(neg, d2, e + tz)

DigitVal(ch) ==
    CASE ch = "0" -> 0 [] ch = "1" -> 1 [] ch = "2" -> 2 [] ch = "3" -> 3
      [] ch = "4" -> 4 [] ch = "5" -> 5 [] ch = "6" -> 6 [] ch = "7" -> 7
      [] ch = "8" -> 8 [] ch = "9" -> 9

DigitChar(n) ==
    CASE n = 0 -> "0" [] n = 1 -> "1" [] n = 2 -> "2" [] n = 3 -> "3"
      [] n = 4 -> "4" [] n = 5 -> "5" [] n = 6 -> "6" [] n = 7 -> "7"
      [] n = 8 -> "8" [] n = 9 -> "9"

RECURSIVE DigitsToNat(_)
DigitsToNat(d) ==
    IF d = <<>> THEN 0
    ELSE 10 * DigitsToNat(SubSeq(d, 1, Len(d) - 1)) + DigitVal(d[Len(d)])

RECURSIVE NatToDigits(_)
NatToDigits(n) ==
    IF n < 10 THEN <<DigitChar(n)>>
    ELSE NatToDigits(n \div 10) \o <<DigitChar(n % 10)>>

(***************************************************************************)
(* float(text): optional sign, digits with an optional fraction (at least  *)
(* one digit in all), optional exponent; "inf" and "nan"; anything else    *)
(* raises ValueError.  Surrounding whitespace is ignored.                  *)
(***************************************************************************)
IsSign(ch) == ch \in {"-", "+"}

\* the exponent digits from position p, ne of them
ParseExpDigits(b, neg, digits, nf, eneg, p, ne) ==
    IF ne >= 1 /\ p + ne = Len(b) + 1
    THEN MakeFloat(neg, digits,
                   (IF eneg THEN 0 - DigitsToNat(SubSeq(b, p, Len(b)))
                    ELSE DigitsToNat(SubSeq(b, p, Len(b)))) - nf)
    ELSE ValueError

\* what follows "e": an optional sign and the exponent digits
ParseExponent(b, neg, digits, nf, p) ==
    IF p <= Len(b) /\ IsSign(b[p])
    THEN ParseExpDigits(b, neg, digits, nf, b[p] = "-", p + 1, DigitRun(b, p + 1))
    ELSE ParseExpDigits(b, neg, digits, nf, FALSE, p, DigitRun(b, p))

\* ni integer digits and nf fraction digits were read, p is what follows
ParseMantissa(b, neg, ni, nf, p) ==
    IF ni + nf = 0 THEN ValueError
    ELSE IF p = Len(b) + 1
    THEN MakeFloat(neg, SubSeq(b, 1, ni) \o SubSeq(b, p - nf, p - 1), 0 - nf)
    ELSE IF b[p] \in {"e", "E"}
    THEN ParseExponent(b, neg, SubSeq(b, 1, ni) \o SubSeq(b, p - nf, p - 1), nf, p + 1)
    ELSE ValueError

\* the fraction after ni integer digits
ParseFraction(b, neg, ni) ==
    IF ni < Len(b) /\ b[ni + 1] = "."
    THEN ParseMantissa(b, neg, ni, DigitRun(b, ni + 2), ni + 2 + DigitRun(b, ni + 2))
    ELSE ParseMantissa(b, neg, ni, 0, ni + 1)

\* the text after the sign
ParseBody(b, neg) ==
    IF b = <<"n", "a", "n">> THEN NaNFloat
    ELSE IF b \in {<<"i", "n", "f">>, <<"i", "n", "f", "i", "n", "i", "t", "y">>}
    THEN InfFloat(neg)
    ELSE ParseFraction(b, neg, DigitRun(b, 1))

ParseSigned(t) ==
    IF t # <<>> /\ IsSign(t[1]) THEN ParseBody(Tail(t), t[1] = "-")
    ELSE ParseBody(t, FALSE)

ParseFloat(text) == ParseSigned(Strip(text))

(***************************************************************************)
(* str(float): repr of a float.  Plain notation when the decimal point     *)
(* position decpt satisfies -4 < decpt <= 16, exponent notation otherwise. *)
(***************************************************************************)
FloatStr(v) ==
    LET sign == IF v.neg THEN <<"-">> ELSE <<>>
        n == Len(v.d)
        decpt == n + v.e
        ex == decpt - 1
        exDigits == NatToDigits(IF ex < 0 THEN 0 - ex ELSE ex)
        plain ==
            IF decpt <= 0 THEN <<"0", ".">> \o Repeat("0", 0 - decpt) \o v.d
            ELSE IF decpt >= n THEN v.d \o Repeat("0", decpt - n) \o <<".", "0">>
            ELSE SubSeq(v.d, 1, decpt) \o <<".">> \o SubSeq(v.d, decpt + 1, n)
        sci ==
            <<v.d[1]>> \o (IF n > 1 THEN <<".">> \o SubSeq(v.d, 2, n) ELSE <<>>)
            \o <<"e">> \o (IF ex < 0 THEN <<"-">> ELSE <<"+">>)
            \o (IF Len(exDigits) < 2 THEN <<"0">> ELSE <<>>) \o exDigits
    IN  CASE v.kind = "nan" -> <<"n", "a", "n">>
          [] v.kind = "inf" -> sign \o <<"i", "n", "f">>
          [] v.kind = "float" /\ n = 0 -> sign \o <<"0", ".", "0">>
          [] v.kind = "float" /\ n > 0 /\ decpt > -4 /\ decpt <= 16 -> sign \o plain
          [] OTHER -> sign \o sci

(***************************************************************************)
(* re.search(r"[-+]?\d*\.?\d+", s): the leftmost match, each quantifier    *)
(* greedy with backtracking.  A match is given by its end position         *)
(* (exclusive); NoMatch when the pattern does not match at the position.   *)
(***************************************************************************)
NoMatch == 0

MatchDigitsAny(s, p) == p + DigitRun(s, p)

\* \d+ at p
MatchDigitsPlus(s, p) ==
    LET n == DigitRun(s, p) IN IF n >= 1 THEN p + n ELSE NoMatch

\* \.?\d+ at p: the dot is taken when the rest matches after it
MatchDotOpt(s, p) ==
    LET withDot == IF p <= Len(s) /\ s[p] = "." THEN MatchDigitsPlus(s, p + 1) ELSE NoMatch
    IN  IF withDot # NoMatch THEN withDot ELSE MatchDigitsPlus(s, p)

\* \d*\.?\d+ at p: the longest digit run for which the rest matches
MatchDigitsStar(s, p) ==
    LET ends == [k \in 0..DigitRun(s, p) |-> MatchDotOpt(s, p + k)]
        ks == {k \in DOMAIN ends : ends[k] # NoMatch}
    IN  IF ks = {} THEN NoMatch
        ELSE ends[CHOOSE k \in ks : \A j \in ks : j <= k]

\* [-+]?\d*\.?\d+ at i
MatchAt(s, i) ==
    LET signed == IF i <= Len(s) /\ IsSign(s[i]) THEN MatchDigitsStar(s, i + 1) ELSE NoMatch
    IN  IF signed # NoMatch THEN signed ELSE MatchDigitsStar(s, i)

\* re.search: the match at the smallest start position, as match.group()
Search(s) ==
    LET ends == [i \in 1..Len(s) |-> MatchAt(s, i)]
        starts == {i \in 1..Len(s) : ends[i] # NoMatch}
        first == CHOOSE i \in starts : \A j \in starts : i <= j
    IN  IF starts = {} THEN [found |-> FALSE, group |-> <<>>]
        ELSE [found |-> TRUE, group |-> SubSeq(s, first, ends[first] - 1)]

RemoveSeparatorsAndDots(s) ==
    SelectSeq(s, LAMBDA ch : ~(IsSpace(ch) \/ ch = "," \/ ch = "."))

\* re.sub(r'[\s\xa0,]+', '', s)
RemoveSeparators(s) == SelectSeq(s, LAMBDA ch : ~(IsSpace(ch) \/ ch = ","))

\* str(val)
PyStr(v) ==
    CASE v.kind = "none" -> <<"N", "o", "n", "e">>
      [] v.kind = "nan" -> <<"n", "a", "n">>
      [] OTHER -> v.s

\* pd.isna(val) or val in ["", None]
IsEmptyCell(v) == v.kind \in {"none", "nan"} \/ (v.kind = "str" /\ v.s = <<>>)

clean_val_passthrough(v) ==
    IF IsEmptyCell(v) THEN NaNFloat
    ELSE LET m == Search(RemoveSeparators(Strip(PyStr(v))))
         IN  IF m.found THEN ParseFloat(m.group) ELSE Zero

clean_val(v) ==
    IF IsEmptyCell(v) THEN Zero
    ELSE LET m == Search(RemoveSeparators(Strip(PyStr(v))))
         IN  IF m.found THEN ParseFloat(m.group) ELSE Zero

(***************************************************************************)
(* Worksheets.  A raw grid (ws.get_all_values()) is a sequence of rows of  *)
(* equal width, each cell a text.  Row indices are zero-based as in the    *)
(* code: row i of the code is raw[i + 1].                                  *)
(***************************************************************************)
LowerChar(ch) ==
    CASE ch = "A" -> "a" [] ch = "B" -> "b" [] ch = "C" -> "c" [] ch = "D" -> "d"
      [] ch = "E" -> "e" [] ch = "F" -> "f" [] ch = "G" -> "g" [] ch = "H" -> "h"
      [] ch = "I" -> "i" [] ch = "J" -> "j" [] ch = "K" -> "k" [] ch = "L" -> "l"
      [] ch = "M" -> "m" [] ch = "N" -> "n" [] ch = "O" -> "o" [] ch = "P" -> "p"
      [] ch = "Q" -> "q" [] ch = "R" -> "r" [] ch = "S" -> "s" [] ch = "T" -> "t"
      [] ch = "U" -> "u" [] ch = "V" -> "v" [] ch = "W" -> "w" [] ch = "X" -> "x"
      [] ch = "Y" -> "y" [] ch = "Z" -> "z" [] ch = "É" -> "é"
      [] OTHER -> ch

\* str.lower()
Lower(s) == [i \in 1..Len(s) |-> LowerChar(s[i])]

\* sub in s, for two texts
Contains(s, sub) ==
    \E i \in 0..(Len(s) - Len(sub)) : SubSeq(s, i + 1, i + Len(sub)) = sub

Marker == <<"c", "o", "m", "m", "u", "n", "e">>

tCommune == <<"C", "o", "m", "m", "u", "n", "e">>

tInfo == <<"I", "n", "f", "o">>

tCommuneId == <<"c", "o", "m", "m", "u", "n", "e", "_", "i", "d">>

Separator == <<" ", "-", " ">>

CellKeyNoLower(c) == Strip(c)

\* str(c).lower().strip()
CellKey(c) == Strip(Lower(c))

RowHasMarkerSubstring(r) == \E j \in 1..Len(r) : Contains(CellKey(r[j]), Marker)

\* "commune" in [str(c).lower().strip() for c in r]
RowHasMarker(r) == \E j \in 1..Len(r) : CellKey(r[j]) = Marker

RECURSIVE ScanRowsNoBreak(_, _)
ScanRowsNoBreak(grid, i) ==
    IF i >= Len(grid) THEN -1
    ELSE IF ScanRowsNoBreak(grid, i + 1) # -1 THEN ScanRowsNoBreak(grid, i + 1)
    ELSE IF RowHasMarker(grid[i + 1]) THEN i
    ELSE -1

RECURSIVE ScanRowsBounded(_, _)
ScanRowsBounded(grid, i) ==
    IF i >= Len(grid) \/ i >= 10 THEN -1
    ELSE IF RowHasMarker(grid[i + 1]) THEN i
    ELSE ScanRowsBounded(grid, i + 1)

\* for i, r in enumerate(raw): if <marker in r>: h_idx = i; break
RECURSIVE ScanRows(_, _)
ScanRows(grid, i) ==
    IF i >= Len(grid) THEN -1
    ELSE IF RowHasMarker(grid[i + 1]) THEN i
    ELSE ScanRows(grid, i + 1)

HeaderIndex(grid) == ScanRows(grid, 0)

RECURSIVE ColsFromOwnPrimary(_, _, _, _)
ColsFromOwnPrimary(r1, r2, i, main) ==
    IF i > Len(r1) \/ i > Len(r2) THEN <<>>
    ELSE LET m == IF Strip(r1[i]) # <<>> THEN Strip(r1[i]) ELSE main
             c2 == Strip(r2[i])
             name == IF c2 # <<>> /\ Strip(r1[i]) # c2 THEN m \o Separator \o c2 ELSE m
         IN  <<IF name # <<>> THEN name ELSE tInfo>> \o ColsFromOwnPrimary(r1, r2, i + 1, m)

RECURSIVE ColsFromNoFill(_, _, _, _)
ColsFromNoFill(r1, r2, i, main) ==
    IF i > Len(r1) \/ i > Len(r2) THEN <<>>
    ELSE LET m == Strip(r1[i])
             c2 == Strip(r2[i])
             name == IF c2 # <<>> /\ m # c2 THEN m \o Separator \o c2 ELSE m
         IN  <<IF name # <<>> THEN name ELSE tInfo>> \o ColsFromNoFill(r1, r2, i + 1, m)

\* the standard construction of the column names from the header row and
\* the row below it (zip stops at the shorter row)
RECURSIVE ColsFrom(_, _, _, _)
ColsFrom(r1, r2, i, main) ==
    IF i > Len(r1) \/ i > Len(r2) THEN <<>>
    ELSE LET m == IF Strip(r1[i]) # <<>> THEN Strip(r1[i]) ELSE main
             c2 == Strip(r2[i])
             name == IF c2 # <<>> /\ m # c2 THEN m \o Separator \o c2 ELSE m
         IN  <<IF name # <<>> THEN name ELSE tInfo>> \o ColsFrom(r1, r2, i + 1, m)

BuildCols(r1, r2) == ColsFrom(r1, r2, 1, <<>>)

SubHeaderRowOrNone(grid, h) == IF h + 1 < Len(grid) THEN grid[h + 2] ELSE <<>>

\* raw[h_idx+1] if h_idx+1 < len(raw) else raw[h_idx]
SubHeaderRow(grid, h) == IF h + 1 < Len(grid) THEN grid[h + 2] ELSE grid[h + 1]

DataRows(grid, h) == SubSeq(grid, h + 3, Len(grid))

BaseColsWithEmpty(row) == [j \in 1..Len(row) |-> Strip(row[j])]

\* process_complex_table: the non-empty cells of the header row
BaseCols(row) == SelectSeq([j \in 1..Len(row) |-> Strip(row[j])], LAMBDA c : c # <<>>)

ComplexTitles ==
    {"CLASSE TAILLE DES EXPLO", "Légumineuses", "Maraîchage 1",
     "Plantation fruitière 1", "Fourrages"}

(***************************************************************************)
(* A DataFrame: the column names and the rows, a cell being a text         *)
(* (StrCell) or a float.  pd.DataFrame(rows, columns=cols) raises when a   *)
(* row's width differs from the number of columns.                         *)
(***************************************************************************)
StrCell(s) == [kind |-> "str", s |-> s, neg |-> FALSE, d |-> <<>>, e |-> 0]

FloatCell(f) == [kind |-> f.kind, s |-> <<>>, neg |-> f.neg, d |-> f.d, e |-> f.e]

NoFrame == [columns |-> <<>>, data |-> <<>>]

FrameFits(rows, names) == \A i \in 1..Len(rows) : Len(rows[i]) = Len(names)

NewFrame(rows, names) ==
    [columns |-> names,
     data |-> [i \in 1..Len(rows) |-> [j \in 1..Len(names) |-> StrCell(rows[i][j])]]]

Occurrences(names, c) == Cardinality({j \in 1..Len(names) : names[j] = c})

\* the guard of the cleaning loop, and df[c].apply(clean_val) succeeding:
\* under a duplicated name df[c] is a DataFrame, clean_val raises on its
\* columns and the bare except leaves them as they are
ColumnIsCleaned(df, j) ==
    /\ ~Contains(df.columns[j], tCommune)
    /\ df.columns[j] # tInfo
    /\ df.data # <<>>
    /\ Occurrences(df.columns, df.columns[j]) = 1

CleanFrame(df) ==
    [columns |-> df.columns,
     data |-> [i \in 1..Len(df.data) |->
                 [j \in 1..Len(df.columns) |->
                    IF ColumnIsCleaned(df, j)
                    THEN FloatCell(clean_val(StrVal(df.data[i][j].s)))
                    ELSE df.data[i][j]]]]

\* df['commune_id'] = df['Commune'].astype(str).str.lower().str.strip()
\* (.str of two columns named 'Commune' raises AttributeError)
CommuneIdRaises(df) == Occurrences(df.columns, tCommune) > 1

AddCommuneId(df) ==
    IF Occurrences(df.columns, tCommune) = 0 THEN df
    ELSE LET k == CHOOSE j \in 1..Len(df.columns) : df.columns[j] = tCommune
         IN  [columns |-> df.columns \o <<tCommuneId>>,
              data |-> [i \in 1..Len(df.data) |->
                          df.data[i] \o <<StrCell(Strip(Lower(df.data[i][k].s)))>>]]

Skipped == [kind |-> "skip", df |-> NoFrame]
Raised == [kind |-> "raise", df |-> NoFrame]
Table(df) == [kind |-> "table", df |-> df]

\* the table built for a worksheet whose header row is row h
BuildFrame(name, grid, h) ==
    LET rows == DataRows(grid, h)
        names == IF name \in ComplexTitles THEN BaseCols(grid[h + 1])
                 ELSE BuildCols(grid[h + 1], SubHeaderRow(grid, h))
    IN  IF name \in ComplexTitles /\ rows = <<>> THEN Raised
        ELSE IF ~FrameFits(rows, names) THEN Raised
        ELSE Table(NewFrame(rows, names))

\* the rest of the loop body once the table is built
FinishSheet(built) ==
    IF built.kind = "raise" THEN Raised
    ELSE LET cleaned == CleanFrame(built.df)
         IN  IF CommuneIdRaises(cleaned) THEN Raised ELSE Table(AddCommuneId(cleaned))

ProcessSheetNoSkip(name, grid) ==
    LET h == IF grid = <<>> THEN -1 ELSE HeaderIndex(grid)
    IN  IF h = -1 THEN Raised ELSE FinishSheet(BuildFrame(name, grid, h))

\* the body of the worksheet loop for one worksheet
ProcessSheet(name, grid) ==
    LET h == IF grid = <<>> THEN -1 ELSE HeaderIndex(grid)
    IN  IF h = -1 THEN Skipped ELSE FinishSheet(BuildFrame(name, grid, h))

(***************************************************************************)
(* The loader: the worksheets in order; a worksheet that raises ends the   *)
(* loop in the except clause, which returns two empty mappings.            *)
(***************************************************************************)
Categories ==
    << [cat |-> "superficies", sheets |-> {"REPARTITION DES SUPERFICIES"}],
       [cat |-> "statut_juridique", sheets |-> {"STATUT JURIDIQUE DES TERRES AGR"}],
       [cat |-> "taille_exploitations", sheets |-> {"CLASSE TAILLE DES EXPLO"}],
       [cat |-> "irrigation", sheets |-> {"L'IRRIGATION"}],
       [cat |-> "production_animale", sheets |-> {"PRODUCTION ANIMALE", "Feuil18"}],
       [cat |-> "apiculture", sheets |-> {"APICULTURE"}],
       [cat |-> "cereales", sheets |-> {"PRODUCTION VEGETALE Céréales"}],
       [cat |-> "legumineuses", sheets |-> {"Légumineuses"}],
       [cat |-> "maraichage", sheets |-> {"Maraîchage 1", "Maraichage 2", "Maraichage 3"}],
       [cat |-> "plantations",
        sheets |-> {"Plantation fruitière 1", "Plantation fruitière 2"}],
       [cat |-> "fourrages", sheets |-> {"Fourrages"}],
       [cat |-> "pedologie", sheets |-> {"PENTES ET RELIEF", "PEDOLOGIE 1", "PEDOLOGIE 2"}],
       [cat |-> "agro_industrie", sheets |-> {"AGRO - INDUSTRIE"}],
       [cat |-> "infrastructures", sheets |-> {"Abattoirs", "lait"}],
       [cat |-> "population", sheets |-> {"POPULATION"}],
       [cat |-> "climat", sheets |-> {"CLIMAT", "PLUVIOMETRIE PAR STATION"}],
       [cat |-> "organisations", sheets |-> {"COOPERATIVES", "AVICULTURE"}] >>

RECURSIVE CategoryFrom(_, _)
CategoryFrom(name, k) ==
    IF k > Len(Categories) THEN "autres"
    ELSE IF name \in Categories[k].sheets THEN Categories[k].cat
    ELSE CategoryFrom(name, k + 1)

CategoryOfNoBreak(name) == "autres"

\* for cat, sheets in categories.items(): ... break / else: 'autres'
CategoryOf(name) == CategoryFrom(name, 1)

\* d[k] = v on a dict
Put(d, k, v) == [x \in DOMAIN d \cup {k} |-> IF x = k THEN v ELSE d[x]]

EmptyDict == <<>>

RECURSIVE LoadFrom(_, _, _, _)

\* worksheet i gave r: the except clause, or the next worksheet
LoadStep(wss, i, data, cats, r) ==
    IF r.kind = "raise" THEN [failed |-> TRUE, data |-> EmptyDict, cats |-> EmptyDict]
    ELSE LoadFrom(wss, i + 1,
                  IF r.kind = "skip" THEN data ELSE Put(data, wss[i].title, r.df),
                  IF r.kind = "skip" THEN cats
                  ELSE Put(cats, wss[i].title, CategoryOf(wss[i].title)))

\* for ws in sh.worksheets(): ... ; return all_data, sheet_categories
LoadFrom(wss, i, data, cats) ==
    IF i > Len(wss) THEN [failed |-> FALSE, data |-> data, cats |-> cats]
    ELSE LoadStep(wss, i, data, cats, ProcessSheet(wss[i].title, wss[i].raw))

load_and_process_data(wss) == LoadFrom(wss, 1, EmptyDict, EmptyDict)

(***************************************************************************)
(* The cached loader.  The source is reachable or not (authorizing or      *)
(* opening the spreadsheet raises, inside the loader's try).  st.cache_data *)
(* keeps the value the loader returned, the two empty mappings of the      *)
(* except clause included, for Ttl seconds.                                *)
(***************************************************************************)
Ttl == 600

LoadFailed == [failed |-> TRUE, data |-> EmptyDict, cats |-> EmptyDict]

\* the body of load_and_process_data run against the source
RunLoader(isUp, wss) == IF isUp THEN load_and_process_data(wss) ELSE LoadFailed

\* the worksheets whose grid the loader's body fetches: none when the
\* spreadsheet cannot be opened, else those up to the first one that raises
Raising(wss) ==
    {i \in 1..Len(wss) : ProcessSheet(wss[i].title, wss[i].raw).kind = "raise"}

FetchedTitles(isUp, wss) ==
    IF ~isUp THEN {}
    ELSE {wss[i].title : i \in {k \in 1..Len(wss) : \A j \in Raising(wss) : k <= j}}

NoEntry == [present |-> FALSE, at |-> 0, value |-> LoadFailed]

EntryUnlessFailed(r, t) ==
    IF r.failed THEN [present |-> FALSE, at |-> 0, value |-> r]
    ELSE [present |-> TRUE, at |-> t, value |-> r]

\* the entry st.cache_data stores when the loader's body returns
Entry(r, t) == [present |-> TRUE, at |-> t, value |-> r]

CacheHitAlways(c, t) == c.present

CacheHitNever(c, t) == FALSE

\* the entry of the loader's one key is there and younger than ttl
CacheHit(c, t) == c.present /\ t < c.at + Ttl

ErrLoad == "Erreur de chargement"

ErrNoData == "Aucune donnée trouvée. Vérifiez l'ID de la feuille."

\* the st.error of the except clause, shown when the loader runs and
\* replayed when its cached value is served
LoaderMessages(r) == IF r.failed THEN <<ErrLoad>> ELSE <<>>

\* the options of the navigation radio, written without their pictograms
Pages ==
    {"Tableau de Bord", "Visualisations", "Analyse Sectorielle", "Assistant IA",
     "Rapports Agricoles", "Cartographie", "Paramètres"}

DefaultPage == "Tableau de Bord"

(***************************************************************************)
(* The assistant page: the domains of analysis of its selectbox with their *)
(* suggested questions, the session state and the outcomes of a run.       *)
(***************************************************************************)
NoText == "<none>"

NoError == "<none>"

IaCategories ==
    << [name |-> "Superficies et Sols",
        sheets |-> <<"REPARTITION DES SUPERFICIES", "PEDOLOGIE 1", "PEDOLOGIE 2">>,
        suggestions |->
            <<"Quelles sont les communes avec la plus grande superficie agricole utile?",
              "Analyse la répartition des types de sols et son impact sur l'agriculture">>],
       [name |-> "Production Végétale",
        sheets |-> <<"PRODUCTION VEGETALE Céréales", "Légumineuses", "Maraîchage 1">>,
        suggestions |->
            <<"Quelles communes ont les meilleurs rendements céréaliers?",
              "Propose des rotations de cultures optimisées">>],
       [name |-> "Production Animale",
        sheets |-> <<"PRODUCTION ANIMALE", "APICULTURE">>,
        suggestions |->
            <<"Analyse la densité du cheptel par rapport à la superficie",
              "Quelles opportunités pour l'élevage?">>],
       [name |-> "Irrigation",
        sheets |-> <<"L'IRRIGATION">>,
        suggestions |->
            <<"Évalue le potentiel d'extension des surfaces irriguées",
              "Analyse l'efficacité des différentes sources d'irrigation">>],
       [name |-> "Analyse Complète",
        sheets |-> <<>>,
        suggestions |->
            <<"Donne un diagnostic global de l'agriculture à Chefchaouen",
              "Propose un plan de développement agricole">>] >>

CategoryNames == {IaCategories[k].name : k \in 1..Len(IaCategories)}

DefaultCategory == IaCategories[1].name

\* suggestions.get(selected_category, [])
SuggestionsOf(c) ==
    UNION {{IaCategories[k].suggestions[i] : i \in 1..Len(IaCategories[k].suggestions)} :
              k \in {n \in 1..Len(IaCategories) : IaCategories[n].name = c}}

(***************************************************************************)
(* The cache window, kept beside the program to count what happens in it:  *)
(* it opens with the first loader call after the last window ended, and    *)
(* ends Ttl seconds later or at the manual refresh.  at is -1 when no      *)
(* window is open; results are the values the loader calls returned,       *)
(* calls their number, fetches the number of fetches of each worksheet.    *)
(***************************************************************************)
SourceTitles == {"POPULATION", "Fourrages"}

NoWindow ==
    [at |-> -1, results |-> {}, calls |-> 0, fetches |-> [t \in SourceTitles |-> 0]]

WindowOpen(w, t) == w.at # -1 /\ t < w.at + Ttl

AfterCall(w, t, r, fetched) ==
    IF WindowOpen(w, t)
    THEN [at |-> w.at, results |-> w.results \cup {r}, calls |-> w.calls + 1,
          fetches |-> [x \in SourceTitles |->
                         w.fetches[x] + IF x \in fetched THEN 1 ELSE 0]]
    ELSE [at |-> t, results |-> {r}, calls |-> 1,
          fetches |-> [x \in SourceTitles |-> IF x \in fetched THEN 1 ELSE 0]]

(***************************************************************************)
(* Cells given to clean_val: None, NaN, every string of at most MaxLen     *)
(* characters over Chars, and the cells written sign, integer part,        *)
(* separator, fraction, unit, with up to MaxZeros zeros in a part.  The    *)
(* written cells keep to 15 significant digits, where the decimal form of  *)
(* a float is exact.                                                       *)
(***************************************************************************)
Chars == {"0", "1", ".", ",", "-", "+", " ", "h"}

ShortStrings == UNION {[1..k -> Chars] : k \in 0..MaxLen}

Signs == {<<>>, <<"-">>, <<"+">>}

IntParts ==
    {<<"0">>, <<"3">>, <<"1", "2">>} \cup {<<"1">> \o Repeat("0", k) : k \in 0..MaxZeros}

FracParts ==
    {<<"2">>, <<"5">>} \cup {Repeat("0", k) \o <<"1">> : k \in 0..MaxZeros}

Separators == {<<".">>, <<",">>}

Units == {<<>>, <<" ", "h", "a">>, <<"k", "g">>, <<NBSP, "h", "a">>}

SigDigits(digits) == Len(MakeFloat(FALSE, digits, 0).d)

NumberParts ==
    {q \in IntParts \X FracParts : SigDigits(q[1] \o q[2]) <= 15}

WrittenCells ==
    {sg \o ip \o un : sg \in Signs, ip \in IntParts, un \in Units}
    \cup {sg \o q[1] \o sep \o q[2] \o un :
            sg \in Signs, q \in NumberParts, sep \in Separators, un \in Units}

CellValues ==
    {NoneVal, NaNVal} \cup {StrVal(s) : s \in ShortStrings \cup WrittenCells}

(***************************************************************************)
(* The value normalizer applied to one cell, and applied again to the      *)
(* string form of its result.                                              *)
(***************************************************************************)
IdleClean == val = NoneVal /\ out = Unset /\ prev = Unset

IdleSheet == title = "" /\ raw = <<>> /\ h_idx = -1 /\ res = Skipped

IdleCols == row1 = <<>> /\ row2 = <<>> /\ cols = <<>>

IdleLoad ==
    worksheets = <<>> /\ all_data = <<>> /\ sheet_categories = <<>> /\ err = FALSE

IdleChat ==
    /\ ia_history = <<>> /\ ia_question = NoText
    /\ typed = NoText /\ pressed = NoText /\ category = DefaultCategory
    /\ has_key = TRUE /\ stale_input = FALSE
    /\ crashed = NoError /\ appended = <<>>
    /\ prompt = <<>> /\ response = NoText

IdleRun ==
    /\ up = TRUE /\ now = 0 /\ cache = NoEntry
    /\ page = DefaultPage /\ clicked = FALSE /\ runs = 0
    /\ shown = <<>> /\ rendered = <<>> /\ opens = <<>>
    /\ window = NoWindow

InitClean ==
    /\ val \in CellValues
    /\ out = Unset
    /\ prev = Unset
    /\ pc = "start"
    /\ IdleSheet /\ IdleCols /\ IdleLoad /\ IdleRun /\ IdleChat

CleanVal ==
    /\ pc = "start"
    /\ out' = clean_val(val)
    /\ pc' = "cleaned"
    /\ UNCHANGED <<val, prev, sheetVars, colVars, loadVars, runVars, chatVars>>

Reclean ==
    /\ pc = "cleaned"
    /\ out.kind = "float"
    /\ prev' = out
    /\ val' = StrVal(FloatStr(out))
    /\ out' = clean_val(StrVal(FloatStr(out)))
    /\ pc' = "recleaned"
    /\ UNCHANGED <<sheetVars, colVars, loadVars, runVars, chatVars>>

NextClean == CleanVal \/ Reclean

SpecClean == InitClean /\ [][NextClean]_vars

(***************************************************************************)
(* One worksheet through the body of the worksheet loop.  The grids: up to *)
(* MaxPad blank rows, then up to MaxRows rows of header cells, then no or  *)
(* one data row, of width up to MaxCols.                                   *)
(***************************************************************************)
tCommuneUpperPadded == <<" ", "C", "O", "M", "M", "U", "N", "E", " ">>

tCommunes == <<"C", "o", "m", "m", "u", "n", "e", "s">>

tTanaqob == <<"T", "a", "n", "a", "q", "o", "b">>

tTotal == <<"T", "O", "T", "A", "L">>

tNumber == <<"1", "2", ",", "5">>

HeaderCells == {tCommune, tCommuneUpperPadded, tCommunes, <<>>}

BlankRow(w) == [j \in 1..w |-> <<>>]

Pad(k, w) == [i \in 1..k |-> BlankRow(w)]

DataRow(first, w) == [j \in 1..w |-> IF j = 1 THEN first ELSE tNumber]

SheetTitles == {"POPULATION", "Fourrages"}

InitSheet ==
    /\ title \in SheetTitles
    /\ \/ raw = <<>>
       \/ \E w \in 1..MaxCols : \E k \in 0..MaxPad : \E n \in 0..MaxRows :
             \E g \in [1..n -> [1..w -> HeaderCells]] :
                \E tail \in {<<>>, <<DataRow(tTanaqob, w)>>} :
                   raw = Pad(k, w) \o g \o tail
    /\ h_idx = -1
    /\ res = Skipped
    /\ pc = "start"
    /\ IdleClean /\ IdleCols /\ IdleLoad /\ IdleRun /\ IdleChat

ProcessWorksheet ==
    /\ pc = "start"
    /\ h_idx' = HeaderIndex(raw)
    /\ res' = ProcessSheet(title, raw)
    /\ pc' = "processed"
    /\ UNCHANGED <<title, raw, cleanVars, colVars, loadVars, runVars, chatVars>>

NextSheet == ProcessWorksheet

SpecSheet == InitSheet /\ [][NextSheet]_vars

(***************************************************************************)
(* The construction of the column names from two rows of up to             *)
(* MaxNameCols cells.                                                      *)
(***************************************************************************)
tBle == <<"B", "l", "é">>

tOrge == <<"O", "r", "g", "e">>

tSurface == <<"S", "u", "r", "f", "a", "c", "e">>

tRendement == <<"R", "e", "n", "d", "e", "m", "e", "n", "t">>

PrimaryCells == {tBle, tOrge, <<>>}

SubCells == {tSurface, tRendement, tBle, <<>>}

InitCols ==
    /\ \E n \in 0..MaxNameCols :
          /\ row1 \in [1..n -> PrimaryCells]
          /\ row2 \in [1..n -> SubCells]
    /\ cols = <<>>
    /\ pc = "start"
    /\ IdleClean /\ IdleSheet /\ IdleLoad /\ IdleRun /\ IdleChat

NameColumns ==
    /\ pc = "start"
    /\ cols' = BuildCols(row1, row2)
    /\ pc' = "named"
    /\ UNCHANGED <<row1, row2, cleanVars, sheetVars, loadVars, runVars, chatVars>>

NextCols == NameColumns

SpecCols == InitCols /\ [][NextCols]_vars

(***************************************************************************)
(* The load of a spreadsheet of up to MaxSheets worksheets with distinct   *)
(* titles.                                                                 *)
(***************************************************************************)
LoadTitles == {"POPULATION", "Fourrages", "Feuil1"}

LoadHeaderRows ==
    {<<tCommune, tSurface>>, <<tCommuneUpperPadded, tSurface>>,
     <<tCommune, <<>>>>, <<tCommunes, tSurface>>}

LoadRests ==
    {<<>>,
     <<BlankRow(2), DataRow(tTanaqob, 2)>>,
     <<BlankRow(2), DataRow(tTanaqob, 2), DataRow(tTotal, 2)>>,
     <<<<tSurface, tRendement>>, DataRow(tTanaqob, 2)>>}

LoadGrids ==
    {<<>>, << <<>> >>} \cup
    {Pad(k, 2) \o <<hr>> \o rest : k \in 0..1, hr \in LoadHeaderRows, rest \in LoadRests}

TitleOrders ==
    UNION {{ts \in [1..n -> LoadTitles] : \A i, j \in 1..n : i # j => ts[i] # ts[j]} :
              n \in 0..MaxSheets}

Init ==
    /\ \E ts \in TitleOrders : \E gs \in [1..Len(ts) -> LoadGrids] :
          worksheets = [i \in 1..Len(ts) |-> [title |-> ts[i], raw |-> gs[i]]]
    /\ all_data = EmptyDict
    /\ sheet_categories = EmptyDict
    /\ err = FALSE
    /\ pc = "start"
    /\ IdleClean /\ IdleSheet /\ IdleCols /\ IdleRun /\ IdleChat

\* data_dict, sheet_categories = load_and_process_data(SHEET_ID), and st.error
Returned(loaded) ==
    /\ all_data' = loaded.data
    /\ sheet_categories' = loaded.cats
    /\ err' = loaded.failed

LoadData ==
    /\ pc = "start"
    /\ Returned(load_and_process_data(worksheets))
    /\ pc' = "loaded"
    /\ UNCHANGED <<worksheets, cleanVars, sheetVars, colVars, runVars, chatVars>>

Next == LoadData

Spec == Init /\ [][Next]_vars

(***************************************************************************)
(* The script runs of one session.  A run starts at "init" with the call   *)
(* of the cached loader, stops at initialisation when the mapping is       *)
(* empty, else renders the sidebar and the selected page; with the refresh *)
(* button clicked it clears the cache in the sidebar and reruns.  Between  *)
(* the steps the clock advances by Tick seconds up to MaxTime, and the     *)
(* spreadsheet is edited or becomes unreachable or reachable again.  At    *)
(* most MaxRuns runs are followed.                                         *)
(***************************************************************************)
RunGrid == <<<<tCommune, tSurface>>, BlankRow(2), DataRow(tTanaqob, 2)>>

RunGridEdited == RunGrid \o <<DataRow(tTotal, 2)>>

RunGridNoRows == << <<tCommune, tSurface>> >>

RunGridNoHeader == << <<tTanaqob, tNumber>> >>

SourceContents ==
    { << [title |-> "POPULATION", raw |-> RunGrid] >>,
      << [title |-> "POPULATION", raw |-> RunGridEdited] >>,
      << [title |-> "POPULATION", raw |-> RunGrid],
         [title |-> "Fourrages", raw |-> RunGrid] >>,
      << [title |-> "Fourrages", raw |-> RunGridNoRows],
         [title |-> "POPULATION", raw |-> RunGrid] >>,
      << [title |-> "POPULATION", raw |-> RunGridNoHeader] >> }

otherVars == <<cleanVars, sheetVars, colVars, chatVars>>

\* a script run begins: the module's globals are not set yet
StartRun(p, c) ==
    /\ runs < MaxRuns
    /\ runs' = runs + 1
    /\ page' = p
    /\ clicked' = c
    /\ shown' = <<>>
    /\ rendered' = <<>>
    /\ opens' = <<>>
    /\ all_data' = EmptyDict
    /\ sheet_categories' = EmptyDict
    /\ err' = FALSE
    /\ pc' = "init"

InitRun ==
    /\ worksheets \in SourceContents
    /\ up \in BOOLEAN
    /\ now = 0
    /\ cache = NoEntry
    /\ page = DefaultPage
    /\ clicked = FALSE
    /\ runs = 1
    /\ shown = <<>>
    /\ rendered = <<>>
    /\ opens = <<>>
    /\ window = NoWindow
    /\ all_data = EmptyDict
    /\ sheet_categories = EmptyDict
    /\ err = FALSE
    /\ pc = "init"
    /\ IdleClean /\ IdleSheet /\ IdleCols /\ IdleChat

\* the sidebar's widgets are on the screen
SidebarShown == \E i \in 1..Len(rendered) : rendered[i] = "sidebar"

\* the user reruns the script
Rerun ==
    /\ pc = "idle"
    /\ StartRun(page, FALSE)
    /\ UNCHANGED <<worksheets, up, now, cache, window, otherVars>>

\* the user picks another page in the radio
SelectPage ==
    /\ pc = "idle"
    /\ SidebarShown
    /\ \E p \in Pages \ {page} : StartRun(p, FALSE)
    /\ UNCHANGED <<worksheets, up, now, cache, window, otherVars>>

\* the user clicks the refresh button
ClickRefresh ==
    /\ pc = "idle"
    /\ SidebarShown
    /\ runs + 1 < MaxRuns
    /\ StartRun(page, TRUE)
    /\ UNCHANGED <<worksheets, up, now, cache, window, otherVars>>

\* the cached value is served
Served(r) ==
    /\ Returned(r)
    /\ shown' = shown \o LoaderMessages(r)
    /\ window' = AfterCall(window, now, r, {})

\* the loader's body has run and returned r, which is stored
Computed(r) ==
    /\ Returned(r)
    /\ cache' = Entry(r, now)
    /\ shown' = shown \o LoaderMessages(r)
    /\ window' = AfterCall(window, now, r, FetchedTitles(up, worksheets))

\* load_and_process_data(SHEET_ID) on a cache hit
LoadHit ==
    /\ pc = "init"
    /\ CacheHit(cache, now)
    /\ Served(cache.value)
    /\ pc' = "check"
    /\ UNCHANGED <<worksheets, up, now, cache, page, clicked, runs, rendered, opens,
                   otherVars>>

\* load_and_process_data(SHEET_ID) on a cache miss
LoadMiss ==
    /\ pc = "init"
    /\ ~CacheHit(cache, now)
    /\ Computed(RunLoader(up, worksheets))
    /\ opens' = Append(opens, IF up THEN "opened" ELSE "raised")
    /\ pc' = "check"
    /\ UNCHANGED <<worksheets, up, now, page, clicked, runs, rendered, otherVars>>

StopsRunNever(d) == FALSE

\* if not data_dict
StopsRun(d) == d = EmptyDict

\* st.error(...); st.stop()
StopAtInit ==
    /\ pc = "check"
    /\ StopsRun(all_data)
    /\ shown' = Append(shown, ErrNoData)
    /\ pc' = "idle"
    /\ UNCHANGED <<loadVars, up, now, cache, page, clicked, runs, rendered, opens,
                   window, otherVars>>

PassInit ==
    /\ pc = "check"
    /\ ~StopsRun(all_data)
    /\ pc' = "sidebar"
    /\ UNCHANGED <<loadVars, runVars, otherVars>>

\* the sidebar, its button not clicked
RenderSidebar ==
    /\ pc = "sidebar"
    /\ ~clicked
    /\ rendered' = Append(rendered, "sidebar")
    /\ pc' = "page"
    /\ UNCHANGED <<loadVars, up, now, cache, page, clicked, runs, shown, opens,
                   window, otherVars>>

\* the sidebar, its button clicked: st.cache_data.clear(); st.rerun()
RefreshData ==
    /\ pc = "sidebar"
    /\ clicked
    /\ cache' = NoEntry
    /\ window' = NoWindow
    /\ StartRun(page, FALSE)
    /\ UNCHANGED <<worksheets, up, now, otherVars>>

\* the page selected in the radio
RenderPage ==
    /\ pc = "page"
    /\ rendered' = Append(rendered, page)
    /\ pc' = "idle"
    /\ UNCHANGED <<loadVars, up, now, cache, page, clicked, runs, shown, opens,
                   window, otherVars>>

TimePasses ==
    /\ now + Tick <= MaxTime
    /\ now' = now + Tick
    /\ UNCHANGED <<loadVars, up, cache, page, clicked, runs, shown, rendered, opens,
                   window, otherVars, pc>>

\* the spreadsheet is edited
EditSource ==
    /\ worksheets' \in SourceContents \ {worksheets}
    /\ UNCHANGED <<all_data, sheet_categories, err, runVars, otherVars, pc>>

\* the spreadsheet becomes unreachable, or reachable again
SourceFlips ==
    /\ up' = ~up
    /\ UNCHANGED <<loadVars, now, cache, page, clicked, runs, shown, rendered, opens,
                   window, otherVars, pc>>

NextRun ==
    \/ Rerun \/ SelectPage \/ ClickRefresh
    \/ LoadHit \/ LoadMiss \/ StopAtInit \/ PassInit
    \/ RenderSidebar \/ RefreshData \/ RenderPage
    \/ TimePasses \/ EditSource \/ SourceFlips

SpecRun == InitRun /\ [][NextRun]_vars

(***************************************************************************)
(* A user session over the pages that read the mapping: the dashboard, the *)
(* visualisations and the assistant.  A widget event starts a new run; it  *)
(* may arrive while the assistant page is still running, between its two   *)
(* columns or during the call of the language model, and the run is then   *)
(* abandoned at its next st.* call.                                        *)
(***************************************************************************)
tSup == <<"S", "u", "p">>

tSupLower == <<"s", "u", "p">>

tHa == <<"H", "a">>

tHaLower == <<"h", "a">>

tSupTotale == <<"S", "u", "p", ".", "T", "o", "t", "a", "l", "e">>

tSAU == <<"S", ".", "A", "U">>

tTotalWord == <<"T", "o", "t", "a", "l">>

tSupIrrigation ==
    <<"s", "u", "p", " ", "i", "r", "r", "i", "g", "a", "t", "i", "o", "n", " ", "H", "a">>

tBovins == <<"B", "o", "v", "i", "n", "s">>

tOvins == <<"O", "v", "i", "n", "s">>

tCaprins == <<"C", "a", "p", "r", "i", "n", "s">>

HasColumn(df, c) == \E j \in 1..Len(df.columns) : df.columns[j] = c

ColumnsWith(df, subs) ==
    {j \in 1..Len(df.columns) : \E x \in subs : Contains(df.columns[j], x)}

\* the entries appended to kpi_data, one truth value per indicator
KpiData(d) ==
    << "REPARTITION DES SUPERFICIES" \in DOMAIN d
          /\ HasColumn(d["REPARTITION DES SUPERFICIES"], tSupTotale),
       "REPARTITION DES SUPERFICIES" \in DOMAIN d
          /\ ColumnsWith(d["REPARTITION DES SUPERFICIES"], {tSAU})
               \cap ColumnsWith(d["REPARTITION DES SUPERFICIES"], {tTotalWord}) # {},
       "L'IRRIGATION" \in DOMAIN d /\ HasColumn(d["L'IRRIGATION"], tSupIrrigation),
       "PRODUCTION ANIMALE" \in DOMAIN d
          /\ ColumnsWith(d["PRODUCTION ANIMALE"], {tBovins, tOvins, tCaprins}) # {} >>

KpiCount(d) == Cardinality({k \in 1..4 : KpiData(d)[k]})

\* st.columns(min(4, len(kpi_data))) raises on a count of zero
DashboardRaises(d) == KpiCount(d) = 0

CultureSheets == <<"PRODUCTION VEGETALE Céréales", "Légumineuses", "Maraîchage 1">>

culture_options(d) == SelectSeq(CultureSheets, LAMBDA t : t \in DOMAIN d)

surface_cols(df) == ColumnsWith(df, {tSup, tSupLower, tHaLower, tHa})

\* df[['Commune', selected_variable]] of the first culture's table raises
\* KeyError when the table has a surface column and no column 'Commune'
ChartRaises(d) ==
    /\ culture_options(d) # <<>>
    /\ surface_cols(d[culture_options(d)[1]]) # {}
    /\ ~HasColumn(d[culture_options(d)[1]], tCommune)

(***************************************************************************)
(* The prompt.  The excerpt of the data is a text, character by character; *)
(* the parts of the template around it, the domain of analysis and the     *)
(* question are one element each.                                          *)
(***************************************************************************)
ExcerptLimit == 4000

HeadRows == 10

CompleteSheets == 5

Min(a, b) == IF a < b THEN a ELSE b

Take(s, n) == SubSeq(s, 1, Min(n, Len(s)))

\* the characters of the titles of the worksheets
TitleText(t) ==
    CASE t = "REPARTITION DES SUPERFICIES" ->
            <<"R", "E", "P", "A", "R", "T", "I", "T", "I", "O", "N", " ", "D", "E", "S",
              " ", "S", "U", "P", "E", "R", "F", "I", "C", "I", "E", "S">>
      [] t = "PEDOLOGIE 1" -> <<"P", "E", "D", "O", "L", "O", "G", "I", "E", " ", "1">>
      [] t = "PEDOLOGIE 2" -> <<"P", "E", "D", "O", "L", "O", "G", "I", "E", " ", "2">>
      [] t = "L'IRRIGATION" ->
            <<"L", "'", "I", "R", "R", "I", "G", "A", "T", "I", "O", "N">>
      [] t = "APICULTURE" -> <<"A", "P", "I", "C", "U", "L", "T", "U", "R", "E">>
      [] t = "POPULATION" -> <<"P", "O", "P", "U", "L", "A", "T", "I", "O", "N">>
      [] t = "Légumineuses" ->
            <<"L", "é", "g", "u", "m", "i", "n", "e", "u", "s", "e", "s">>

\* list(data_dict.keys()): the keys in the order of their insertion
SheetOrder(wss, d) ==
    SelectSeq([i \in 1..Len(wss) |-> wss[i].title], LAMBDA t : t \in DOMAIN d)

\* ia_categories[selected_category]
SelectedSheets(c, keys) ==
    IF c = "Analyse Complète" THEN Take(keys, CompleteSheets)
    ELSE IaCategories[CHOOSE k \in 1..Len(IaCategories) : IaCategories[k].name = c].sheets

\* df.head(10)
head(df, n) == [columns |-> df.columns, data |-> Take(df.data, n)]

NeedsQuotes(s) == \E i \in 1..Len(s) : s[i] \in {",", "\"", "\n", "\r"}

RECURSIVE DoubleQuotes(_)
DoubleQuotes(s) ==
    IF s = <<>> THEN <<>>
    ELSE (IF Head(s) = "\"" THEN <<"\"", "\"">> ELSE <<Head(s)>>) \o DoubleQuotes(Tail(s))

\* a text as a field of a CSV line
CsvText(s) == IF NeedsQuotes(s) THEN <<"\"">> \o DoubleQuotes(s) \o <<"\"">> ELSE s

\* a cell as a field: a text, a float by its repr, a missing value empty
CsvCell(c) ==
    CASE c.kind = "str" -> CsvText(c.s)
      [] c.kind = "nan" -> <<>>
      [] OTHER -> FloatStr(c)

RECURSIVE JoinFrom(_, _)
JoinFrom(fields, i) ==
    IF i > Len(fields) THEN <<"\n">>
    ELSE (IF i > 1 THEN <<",">> ELSE <<>>) \o fields[i] \o JoinFrom(fields, i + 1)

CsvLine(fields) == JoinFrom(fields, 1)

RECURSIVE CsvRowsFrom(_, _)
CsvRowsFrom(df, i) ==
    IF i > Len(df.data) THEN <<>>
    ELSE CsvLine([j \in 1..Len(df.data[i]) |-> CsvCell(df.data[i][j])])
         \o CsvRowsFrom(df, i + 1)

\* df.to_csv(index=False)
to_csv(df) ==
    CsvLine([j \in 1..Len(df.columns) |-> CsvText(df.columns[j])]) \o CsvRowsFrom(df, 1)

SheetMark(t) == <<"=", "=", "=", " ">> \o TitleText(t) \o <<" ", "=", "=", "=">>

\* f"\n\n=== {sheet} ===\n{csv_sample}"
SheetBlock(t, df) == <<"\n", "\n">> \o SheetMark(t) \o <<"\n">> \o to_csv(head(df, HeadRows))

RECURSIVE ContextFrom(_, _, _)
ContextFrom(sheets, i, d) ==
    IF i > Len(sheets) THEN <<>>
    ELSE (IF sheets[i] \in DOMAIN d THEN SheetBlock(sheets[i], d[sheets[i]]) ELSE <<>>)
         \o ContextFrom(sheets, i + 1, d)

context_data(sheets, d) == ContextFrom(sheets, 1, d)

PromptContext == "Tu es un expert agronome [...] - Domaine analysé: "

PromptData == "DONNÉES DISPONIBLES (échantillon):"

PromptInstructions == "INSTRUCTIONS SPÉCIFIQUES: [...] QUESTION DE L'UTILISATEUR: "

PromptAnswer == "RÉPONSE (en français, format professionnel):"

BuildPromptUncut(c, keys, d, q) ==
    <<PromptContext, c, PromptData>>
    \o context_data(SelectedSheets(c, keys), d)
    \o <<PromptInstructions, q, PromptAnswer>>

\* the f-string of the prompt
BuildPrompt(c, keys, d, q) ==
    <<PromptContext, c, PromptData>>
    \o Take(context_data(SelectedSheets(c, keys), d), ExcerptLimit)
    \o <<PromptInstructions, q, PromptAnswer>>

ErrColumns == "StreamlitAPIException"

ErrKey == "KeyError"

ErrNoKey == "Clé API Gemini manquante. Veuillez la configurer dans les secrets."

ErrIA == "Erreur lors de l'analyse IA"

SessionPages == {"Tableau de Bord", "Visualisations", "Assistant IA"}

SessionCategories == {"Superficies et Sols", "Irrigation"}

Questions == {"Quelle commune irrigue le plus ?"}

Responses == {"Tanaqob irrigue le plus."}

SessionGridKpi == <<<<tCommune, tSupTotale>>, BlankRow(2), DataRow(tTanaqob, 2)>>

SessionGridCrop == <<<<tCommune, tSup>>, BlankRow(2), DataRow(tTanaqob, 2)>>

SessionGridCropUpper ==
    <<<<tCommuneUpperPadded, tSup>>, BlankRow(2), DataRow(tTanaqob, 2)>>

SessionSources ==
    { << [title |-> "REPARTITION DES SUPERFICIES", raw |-> SessionGridKpi],
         [title |-> "Légumineuses", raw |-> SessionGridCrop] >>,
      << [title |-> "REPARTITION DES SUPERFICIES", raw |-> SessionGridKpi],
         [title |-> "Légumineuses", raw |-> SessionGridCropUpper] >>,
      << [title |-> "POPULATION", raw |-> RunGrid] >> }

InitSession ==
    /\ worksheets \in SessionSources
    /\ up \in BOOLEAN
    /\ has_key \in BOOLEAN
    /\ now = 0
    /\ cache = NoEntry
    /\ page = DefaultPage
    /\ clicked = FALSE
    /\ runs = 1
    /\ shown = <<>>
    /\ rendered = <<>>
    /\ opens = <<>>
    /\ window = NoWindow
    /\ all_data = EmptyDict
    /\ sheet_categories = EmptyDict
    /\ err = FALSE
    /\ pc = "init"
    /\ ia_history = <<>> /\ ia_question = NoText
    /\ typed = NoText /\ pressed = NoText /\ category = DefaultCategory
    /\ stale_input = FALSE
    /\ crashed = NoError /\ appended = <<>>
    /\ prompt = <<>> /\ response = NoText
    /\ IdleClean /\ IdleSheet /\ IdleCols

OnScreen(w) == \E i \in 1..Len(rendered) : rendered[i] = w

\* the run is between two st.* calls of the assistant page
Running == pc \in {"dialog", "llm"}

\* the chat input of this run, or of the run before while this one runs
ChatInputOnScreen == OnScreen("chat_input") \/ (Running /\ stale_input)

\* a widget event: the script runs again with the widgets' new values
NewRun(p, c, cat, q, s) ==
    /\ pc = "idle" \/ Running
    /\ StartRun(p, c)
    /\ category' = cat
    /\ typed' = q
    /\ pressed' = s
    /\ stale_input' = ChatInputOnScreen
    /\ crashed' = NoError
    /\ appended' = <<>>
    /\ prompt' = <<>>
    /\ response' = NoText
    /\ UNCHANGED <<worksheets, up, now, cache, window, ia_history, ia_question,
                   has_key, cleanVars, sheetVars, colVars>>

\* the radio of the sidebar; the selectbox of the page left is forgotten
ChangePage ==
    /\ SidebarShown
    /\ \E p \in SessionPages \ {page} : NewRun(p, FALSE, DefaultCategory, NoText, NoText)

\* the selectbox of the assistant page
ChangeCategory ==
    /\ OnScreen("suggestions")
    /\ \E c \in SessionCategories \ {category} : NewRun(page, FALSE, c, NoText, NoText)

\* a button of a suggested question
Press ==
    /\ OnScreen("suggestions")
    /\ \E s \in SuggestionsOf(category) : NewRun(page, FALSE, category, NoText, s)

\* a question submitted in the chat input
Ask ==
    /\ ChatInputOnScreen
    /\ \E q \in Questions : NewRun(page, FALSE, category, q, NoText)

\* the refresh button of the sidebar
Refresh ==
    /\ SidebarShown
    /\ runs + 1 < MaxRuns
    /\ NewRun(page, TRUE, category, NoText, NoText)

\* the page ends: rendered whole, or cut short by the exception e
EndPage(e) ==
    /\ crashed' = e
    /\ rendered' = IF e = NoError THEN Append(rendered, page) ELSE rendered
    /\ pc' = "idle"
    /\ UNCHANGED <<loadVars, up, now, cache, page, clicked, runs, shown, opens, window,
                   ia_history, ia_question, typed, pressed, category, has_key,
                   stale_input, appended, prompt, response, cleanVars, sheetVars,
                   colVars>>

RenderDashboard ==
    /\ pc = "page"
    /\ page = "Tableau de Bord"
    /\ EndPage(IF DashboardRaises(all_data) THEN ErrColumns ELSE NoError)

RenderVisualisations ==
    /\ pc = "page"
    /\ page = "Visualisations"
    /\ EndPage(IF ChartRaises(all_data) THEN ErrKey ELSE NoError)

\* if "gemini_api_key" not in st.secrets: st.error(...); st.stop()
AssistantNoKey ==
    /\ pc = "page"
    /\ page = "Assistant IA"
    /\ ~has_key
    /\ shown' = Append(shown, ErrNoKey)
    /\ pc' = "idle"
    /\ UNCHANGED <<loadVars, up, now, cache, page, clicked, runs, rendered, opens,
                   window, otherVars>>

\* the first column: the selectbox and the buttons of its suggestions
AssistantContext ==
    /\ pc = "page"
    /\ page = "Assistant IA"
    /\ has_key
    /\ ia_question' = IF pressed \in SuggestionsOf(category) THEN pressed ELSE ia_question
    /\ rendered' = Append(rendered, "suggestions")
    /\ pc' = "dialog"
    /\ UNCHANGED <<loadVars, up, now, cache, page, clicked, runs, shown, opens, window,
                   ia_history, typed, pressed, category, has_key, stale_input,
                   crashed, appended, prompt, response, cleanVars, sheetVars,
                   colVars>>

UserEntry(q) == [role |-> "user", content |-> q]

AssistantEntry(r) == [role |-> "assistant", content |-> r]

QuestionUnrecorded(q) ==
    /\ ia_question' = NoText
    /\ shown' = Append(shown, q)
    /\ prompt' = BuildPrompt(category, SheetOrder(worksheets, all_data), all_data, q)
    /\ pc' = "llm"
    /\ UNCHANGED <<ia_history, appended>>

\* the second column, a question q to answer: it is appended and shown
Question(q) ==
    /\ ia_question' = NoText
    /\ ia_history' = Append(ia_history, UserEntry(q))
    /\ appended' = Append(appended, UserEntry(q))
    /\ shown' = Append(shown, q)
    /\ prompt' = BuildPrompt(category, SheetOrder(worksheets, all_data), all_data, q)
    /\ pc' = "llm"

\* the second column, nothing to answer
NoQuestion ==
    /\ pc' = "idle"
    /\ UNCHANGED <<ia_question, ia_history, appended, shown, prompt>>

\* the second column up to the call of the language model
AssistantDialog ==
    /\ pc = "dialog"
    /\ rendered' = Append(rendered, "chat_input")
    /\ IF ia_question # NoText THEN Question(ia_question)
       ELSE IF typed # NoText THEN Question(typed)
       ELSE NoQuestion
    /\ UNCHANGED <<loadVars, up, now, cache, page, clicked, runs, opens, window,
                   typed, pressed, category, has_key, stale_input, crashed, response,
                   cleanVars, sheetVars, colVars>>

\* model.generate_content(prompt) returns: the text is shown and stored
AssistantAnswer ==
    /\ pc = "llm"
    /\ \E r \in Responses :
          /\ response' = r
          /\ shown' = Append(shown, r)
          /\ ia_history' = Append(ia_history, AssistantEntry(r))
          /\ appended' = Append(appended, AssistantEntry(r))
    /\ pc' = "idle"
    /\ UNCHANGED <<loadVars, up, now, cache, page, clicked, runs, rendered, opens,
                   window, ia_question, typed, pressed, category, has_key,
                   stale_input, crashed, prompt, cleanVars, sheetVars, colVars>>

\* model.generate_content(prompt) raises: except Exception, st.error
AssistantFails ==
    /\ pc = "llm"
    /\ shown' = Append(shown, ErrIA)
    /\ pc' = "idle"
    /\ UNCHANGED <<loadVars, up, now, cache, page, clicked, runs, rendered, opens,
                   window, otherVars>>

NextSession ==
    \/ ChangePage \/ ChangeCategory \/ Press \/ Ask \/ Refresh
    \/ LoadHit \/ LoadMiss \/ StopAtInit \/ PassInit
    \/ RenderSidebar \/ RefreshData
    \/ RenderDashboard \/ RenderVisualisations
    \/ AssistantNoKey \/ AssistantContext \/ AssistantDialog
    \/ AssistantAnswer \/ AssistantFails

SpecSession == InitSession /\ [][NextSession]_vars

(***************************************************************************)
(* The second column of the assistant page over tables large enough for    *)
(* the limits of the excerpt: a run of a session that has reached it with  *)
(* a question typed, a suggestion clicked, a suggestion left pending, or   *)
(* none.                                                                   *)
(***************************************************************************)
RowTags == <<"a", "b", "f", "g", "h", "j", "k", "l", "q", "r", "t", "v", "w">>

TaggedCell(i, w) == <<RowTags[i]>> \o [k \in 1..(w - 1) |-> "x"]

PromptGrid(n, w) ==
    <<<<tCommune, tSup>>, BlankRow(2)>> \o [i \in 1..n |-> <<TaggedCell(i, w), tNumber>>]

BigGrid == PromptGrid(MaxPromptRows, CellWidth)

LongGrid == PromptGrid(MaxPromptRows - 1, 3)

SmallGrid == PromptGrid(2, 3)

QuotedGrid == <<<<tCommune, tSup>>, BlankRow(2), <<<<"y", ",", "z">>, tNumber>>>>

PromptSources ==
    { << [title |-> "REPARTITION DES SUPERFICIES", raw |-> BigGrid],
         [title |-> "PEDOLOGIE 1", raw |-> SmallGrid],
         [title |-> "POPULATION", raw |-> SmallGrid] >>,
      << [title |-> "PEDOLOGIE 1", raw |-> SmallGrid],
         [title |-> "REPARTITION DES SUPERFICIES", raw |-> QuotedGrid],
         [title |-> "L'IRRIGATION", raw |-> LongGrid] >>,
      << [title |-> "POPULATION", raw |-> SmallGrid],
         [title |-> "REPARTITION DES SUPERFICIES", raw |-> SmallGrid],
         [title |-> "PEDOLOGIE 1", raw |-> QuotedGrid],
         [title |-> "L'IRRIGATION", raw |-> SmallGrid],
         [title |-> "APICULTURE", raw |-> SmallGrid],
         [title |-> "PEDOLOGIE 2", raw |-> SmallGrid] >>,
      << [title |-> "PEDOLOGIE 1", raw |-> LongGrid],
         [title |-> "PEDOLOGIE 2", raw |-> BigGrid],
         [title |-> "APICULTURE", raw |-> LongGrid] >> }

\* the ghost of five runs served in one window
PromptWindow(r, fetched) ==
    AfterCall(AfterCall(AfterCall(AfterCall(AfterCall(NoWindow, 0, r, fetched),
                                            0, r, {}), 0, r, {}), 0, r, {}), 0, r, {})

\* the run stands before the second column with the mapping loaded as r
Loaded(r) ==
    /\ all_data = r.data
    /\ sheet_categories = r.cats
    /\ cache = Entry(r, 0)
    /\ window = PromptWindow(r, FetchedTitles(TRUE, worksheets))

InitPrompt ==
    /\ worksheets \in PromptSources
    /\ Loaded(RunLoader(TRUE, worksheets))
    /\ category \in CategoryNames
    /\ \E q \in Questions \cup {NoText}, s \in SuggestionsOf(category) \cup {NoText} :
          \/ typed = q /\ pressed = NoText /\ ia_question = s
          \/ typed = NoText /\ pressed = s /\ ia_question = s /\ q = NoText
    /\ up = TRUE /\ now = 0 /\ err = FALSE
    /\ page = "Assistant IA" /\ clicked = FALSE /\ runs = 5
    /\ shown = <<>> /\ rendered = <<"sidebar", "suggestions">> /\ opens = <<>>
    /\ ia_history = <<>> /\ has_key = TRUE /\ stale_input = TRUE
    /\ crashed = NoError /\ appended = <<>>
    /\ prompt = <<>> /\ response = NoText
    /\ pc = "dialog"
    /\ IdleClean /\ IdleSheet /\ IdleCols

NextPrompt == AssistantDialog \/ AssistantAnswer \/ AssistantFails

SpecPrompt == InitPrompt /\ [][NextPrompt]_vars

(***************************************************************************)
(* Properties of the value normalizer.                                     *)
(***************************************************************************)
Range(s) == {s[i] : i \in 1..Len(s)}

\* the cell is written <sign><digits>[. or ,]<digits><suffix text>
SignLen(s) == IF s # <<>> /\ IsSign(s[1]) THEN 1 ELSE 0

IntLen(s) == DigitRun(s, SignLen(s) + 1)

SepPos(s) == SignLen(s) + IntLen(s) + 1

FracLen(s) == DigitRun(s, SepPos(s) + 1)

IsText(s) == \A i \in 1..Len(s) : ~IsDigit(s[i]) /\ s[i] \notin {".", ",", "-", "+"}

HasNumericPrefix(s) ==
    /\ IntLen(s) >= 1
    /\ SepPos(s) <= Len(s)
    /\ s[SepPos(s)] \in {".", ","}
    /\ FracLen(s) >= 1
    /\ IsText(SubSeq(s, SepPos(s) + FracLen(s) + 1, Len(s)))

\* the signed number the prefix denotes, the separator read as decimal point
PrefixValue(s) ==
    MakeFloat(s[1] = "-",
              SubSeq(s, SignLen(s) + 1, SepPos(s) - 1)
                  \o SubSeq(s, SepPos(s) + 1, SepPos(s) + FracLen(s)),
              0 - FracLen(s))

\* C1: for every cell <sign><digits>[. or ,]<digits><suffix text>, clean_val
\* returns the signed number of the numeric prefix, a comma between digits
\* being read as the decimal separator, and ignores the suffix.
C1_SignedPrefix ==
    (pc = "cleaned" /\ val.kind = "str" /\ HasNumericPrefix(val.s))
        => FloatEq(out, PrefixValue(val.s))

\* C2: for every empty, absent or null cell (empty string, None, NaN),
\* clean_val returns 0.0.
C2_EmptyIsZero ==
    (pc = "cleaned" /\ val \in {NoneVal, NaNVal, StrVal(<<>>)}) => out = Zero

C2_Witness == pc = "cleaned" /\ val = NaNVal /\ out = Zero

\* the text is, as a whole, an optional sign, digits, an optional dot, digits
IsPatternText(t) ==
    LET r == SubSeq(t, SignLen(t) + 1, Len(t))
        n1 == DigitRun(r, 1)
    IN  \/ n1 >= 1 /\ n1 = Len(r)
        \/ /\ n1 < Len(r)
           /\ r[n1 + 1] = "."
           /\ DigitRun(r, n1 + 2) >= 1
           /\ n1 + 1 + DigitRun(r, n1 + 2) = Len(r)

HasPatternMatch(s) ==
    \E i \in 1..Len(s) : \E j \in i..Len(s) : IsPatternText(SubSeq(s, i, j))

\* C3: for every string cell clean_val returns a number and never raises:
\* 0.0 when the cell, whitespace removed, has no substring matching the
\* signed decimal pattern, and the matched text is always a parseable number.
C3_NeverRaises ==
    (pc = "cleaned" /\ val.kind = "str") =>
        LET s == RemoveSeparators(Strip(val.s))
        IN  /\ out.kind = "float"
            /\ ~HasPatternMatch(s) => out = Zero
            /\ Search(s).found => ParseFloat(Search(s).group).kind = "float"

C3_Witness ==
    /\ pc = "cleaned"
    /\ val.kind = "str"
    /\ Search(RemoveSeparators(Strip(val.s))).found
    /\ Search(RemoveSeparators(Strip(val.s))).group # RemoveSeparators(Strip(val.s))
    /\ Head(Search(RemoveSeparators(Strip(val.s))).group) = "-"
    /\ out.kind = "float"
    /\ out.neg
    /\ out.e < 0

\* C4 as claimed: for every value v that clean_val returns, clean_val of the
\* string form of v is v again, exponent notation included.
C4_Idempotent == pc = "recleaned" => FloatEq(out, prev)

\* C4 as amended: for every value v that clean_val returns and whose string
\* form is in plain decimal notation (no exponent), clean_val of the string
\* form of v is v again.
C4_IdempotentPlain ==
    (pc = "recleaned" /\ "e" \notin Range(val.s)) => FloatEq(out, prev)

C4_Witness ==
    /\ pc = "recleaned"
    /\ "e" \notin Range(val.s)
    /\ prev.neg
    /\ prev.e < 0
    /\ FloatEq(out, prev)

(***************************************************************************)
(* Properties of the header detection.                                     *)
(***************************************************************************)
ReplaceCell(grid, i, j, c) == [grid EXCEPT ![i] = [grid[i] EXCEPT ![j] = c]]

MarkerVariants ==
    {Marker,
     <<"C", "O", "M", "M", "U", "N", "E">>,
     <<" ", " ", "C", "O", "M", "M", "U", "N", "E", " ", " ">>,
     <<"c", "o", "m", "m", "u", "n", "e", " ">>,
     <<NBSP, "C", "o", "m", "m", "u", "n", "e">>}

\* C5: header location does not depend on the case or the surrounding
\* whitespace of the marker: replacing a cell "Commune" of the grid by
\* "commune", "COMMUNE" or a whitespace-padded variant leaves the located row
\* index unchanged.
C5_CaseInvariant ==
    pc = "processed" =>
        \A i \in 1..Len(raw) : \A j \in 1..Len(raw[i]) : \A v \in MarkerVariants :
            raw[i][j] = tCommune => HeaderIndex(ReplaceCell(raw, i, j, v)) = h_idx

C5_Witness ==
    /\ pc = "processed"
    /\ h_idx >= 1
    /\ \E j \in 1..Len(raw[h_idx + 1]) :
          /\ raw[h_idx + 1][j] = tCommune
          /\ \A v \in MarkerVariants :
                HeaderIndex(ReplaceCell(raw, h_idx + 1, j, v)) = h_idx

\* a cell that, lower-cased and trimmed, is the marker / contains the marker
IsMarkerCell(c) == Strip(Lower(c)) = Marker

HoldsMarker(c) == Contains(Strip(Lower(c)), Marker)

\* C6 as claimed: a row qualifies as header row when one of its cells,
\* trimmed and case-folded, equals the marker or contains it as a substring.
C6_SubstringQualifies ==
    pc = "processed" =>
        \A i \in 1..Len(raw) :
            (\E j \in 1..Len(raw[i]) : HoldsMarker(raw[i][j]))
                => (h_idx # -1 /\ h_idx <= i - 1)

\* C6 as amended: a row qualifies as header row exactly when one of its
\* cells, trimmed and case-folded, equals the marker; a cell that only
\* contains the marker as a substring ("Communes") does not make it qualify.
C6_ExactQualifies ==
    pc = "processed" =>
        /\ h_idx # -1 =>
              /\ h_idx \in 0..(Len(raw) - 1)
              /\ \E j \in 1..Len(raw[h_idx + 1]) : IsMarkerCell(raw[h_idx + 1][j])
        /\ h_idx = -1 =>
              \A i \in 1..Len(raw) : \A j \in 1..Len(raw[i]) : ~IsMarkerCell(raw[i][j])

C6_Witness ==
    /\ pc = "processed"
    /\ h_idx = -1
    /\ res.kind = "skip"
    /\ \E i \in 1..Len(raw) : \E j \in 1..Len(raw[i]) : HoldsMarker(raw[i][j])

QualifyingRows ==
    {i \in 0..(Len(raw) - 1) : \E j \in 1..Len(raw[i + 1]) : IsMarkerCell(raw[i + 1][j])}

\* C7: when several rows qualify as header row the located index is the
\* smallest qualifying row index; when none qualifies it is -1.
C7_EarliestRow ==
    pc = "processed" =>
        IF QualifyingRows = {} THEN h_idx = -1
        ELSE h_idx \in QualifyingRows /\ \A i \in QualifyingRows : h_idx <= i

C7_Witness ==
    /\ pc = "processed"
    /\ Cardinality(QualifyingRows) >= 2
    /\ h_idx >= 1
    /\ \A i \in QualifyingRows : h_idx <= i

\* C8 as claimed: only the first N (10) rows are examined, so a worksheet
\* with no marker row among them is treated as having no header and
\* produces no table.
C8_ScanBounded ==
    pc = "processed" =>
        ((\A i \in QualifyingRows : i >= 10) => (h_idx = -1 /\ res.kind = "skip"))

\* C8 as amended: the scan has no bound, every row of the grid is examined:
\* a worksheet whose first marker row lies beyond the first 10 rows has its
\* header located at that row and is not skipped.
C8_ScanWholeGrid ==
    pc = "processed" =>
        \A i \in QualifyingRows :
            (i >= 10 /\ \A k \in QualifyingRows : i <= k)
                => (h_idx = i /\ res.kind # "skip")

C8_Witness ==
    /\ pc = "processed"
    /\ QualifyingRows # {}
    /\ \A i \in QualifyingRows : i >= 10
    /\ h_idx >= 10
    /\ res.kind = "table"

(***************************************************************************)
(* Properties of the column names.                                         *)
(***************************************************************************)
IsPrefix(p, s) == Len(p) <= Len(s) /\ SubSeq(s, 1, Len(p)) = p

\* the most recent non-empty primary cell at or left of position i
LastCategory(i) ==
    LET filled == {k \in 1..i : Strip(row1[k]) # <<>>}
    IN  IF filled = {} THEN <<>>
        ELSE Strip(row1[CHOOSE k \in filled : \A m \in filled : m <= k])

\* at a position with an empty primary cell the name is, or begins with, the
\* most recent non-empty primary cell to its left
ForwardFilled ==
    \A i \in 1..Len(row1) :
        (Strip(row1[i]) = <<>> /\ LastCategory(i) # <<>>)
            => IsPrefix(LastCategory(i), cols[i])

IsExample ==
    /\ row1 = <<tBle, <<>>, tOrge, <<>>>>
    /\ row2 = <<tSurface, tRendement, tSurface, tRendement>>

\* C10 as claimed: the category is forward-filled over empty primary cells,
\* and ["Blé", "", "Orge", ""] over ["Surface", "Rendement", "Surface",
\* "Rendement"] yields "Blé_Surface", "Blé_Rendement", "Orge_Surface",
\* "Orge_Rendement".
C10_ForwardFillUnderscore ==
    pc = "named" =>
        /\ Len(cols) = Len(row1)
        /\ ForwardFilled
        /\ IsExample =>
              cols = <<tBle \o <<"_">> \o tSurface, tBle \o <<"_">> \o tRendement,
                       tOrge \o <<"_">> \o tSurface, tOrge \o <<"_">> \o tRendement>>

\* C10 as amended: the category is forward-filled over empty primary cells,
\* and the example yields "Blé - Surface", "Blé - Rendement",
\* "Orge - Surface", "Orge - Rendement" (the separator is " - ").
C10_ForwardFill ==
    pc = "named" =>
        /\ Len(cols) = Len(row1)
        /\ ForwardFilled
        /\ IsExample =>
              cols = <<tBle \o <<" ", "-", " ">> \o tSurface,
                       tBle \o <<" ", "-", " ">> \o tRendement,
                       tOrge \o <<" ", "-", " ">> \o tSurface,
                       tOrge \o <<" ", "-", " ">> \o tRendement>>

C10_Witness ==
    /\ pc = "named"
    /\ IsExample
    /\ cols[2] = tBle \o <<" ", "-", " ">> \o tRendement
    /\ cols[4] = tOrge \o <<" ", "-", " ">> \o tRendement

SubLabel(i) == Strip(row2[i])

\* C11 as claimed: at every position whose sub-label is non-empty and
\* differs from that position's own primary cell the name is the current
\* category, the separator and the sub-label; so at a position with an empty
\* primary cell whose sub-label equals the forward-filled category the name
\* is category, separator, category.
C11_DiffersFromOwnPrimary ==
    pc = "named" =>
        \A i \in 1..Len(cols) :
            (SubLabel(i) # <<>> /\ SubLabel(i) # Strip(row1[i]))
                => cols[i] = LastCategory(i) \o Separator \o SubLabel(i)

\* C11 as amended: at every position whose sub-label is non-empty and
\* differs from the current (forward-filled) category the name is the
\* category, the separator and the sub-label; at a position with an empty
\* primary cell whose sub-label equals the forward-filled category the name
\* is the category alone.
C11_DiffersFromCategory ==
    pc = "named" =>
        \A i \in 1..Len(cols) :
            /\ (SubLabel(i) # <<>> /\ SubLabel(i) # LastCategory(i))
                  => cols[i] = LastCategory(i) \o Separator \o SubLabel(i)
            /\ (Strip(row1[i]) = <<>> /\ SubLabel(i) # <<>>
                    /\ SubLabel(i) = LastCategory(i))
                  => cols[i] = LastCategory(i)

C11_Witness ==
    /\ pc = "named"
    /\ \E i \in 1..Len(cols) :
          /\ Strip(row1[i]) = <<>>
          /\ SubLabel(i) = tBle
          /\ LastCategory(i) = tBle
          /\ cols[i] = tBle
    /\ \E i \in 1..Len(cols) :
          /\ Strip(row1[i]) = <<>>
          /\ SubLabel(i) = tRendement
          /\ cols[i] = tBle \o Separator \o tRendement

(***************************************************************************)
(* Properties of the load.                                                 *)
(***************************************************************************)
HasHeader(grid) ==
    \E i \in 1..Len(grid) : \E j \in 1..Len(grid[i]) : IsMarkerCell(grid[i][j])

HeaderedTitles ==
    {worksheets[i].title : i \in {k \in 1..Len(worksheets) : HasHeader(worksheets[k].raw)}}

\* the names given to the positions of the header row: the columns of the
\* table without the commune_id column appended to them
SynthesizedNames(df) ==
    IF Occurrences(df.columns, tCommune) = 0 THEN df.columns
    ELSE SubSeq(df.columns, 1, Len(df.columns) - 1)

IdentifierPositions ==
    {j \in 1..Len(raw[h_idx + 1]) :
        \/ IsMarkerCell(raw[h_idx + 1][j])
        \/ IsMarkerCell(SubHeaderRow(raw, h_idx)[j])}

\* C13: in every loaded table the identifier column carries the one
\* canonical name "Commune", whatever the case of the marker cell, whether
\* the marker is in the primary or in the sub-header cell, and whatever the
\* other cell of that position holds.
C13_CanonicalName ==
    (pc = "processed" /\ res.kind = "table") =>
        /\ Occurrences(res.df.columns, tCommune) >= 1
        /\ title \notin ComplexTitles =>
              \A j \in IdentifierPositions : SynthesizedNames(res.df)[j] = tCommune

\* the raw cell under data row i, position j of the worksheet
RawCell(i, j) == raw[h_idx + 2 + i][j]

\* C14: after a load every cell of every column other than the identifier
\* column equals clean_val of the corresponding raw cell, including the
\* columns right of the identifier column that inherit its label by
\* forward-fill, the columns named by the placeholder and the columns whose
\* name is duplicated.
C14_AllOtherColumnsCleaned ==
    (pc = "processed" /\ title \notin ComplexTitles /\ res.kind = "table") =>
        \A i \in 1..Len(res.df.data) :
            \A j \in 1..Len(raw[h_idx + 1]) \ IdentifierPositions :
                res.df.data[i][j] = FloatCell(clean_val(StrVal(RawCell(i, j))))

\* C15: in every loaded table the values of the identifier column are the
\* raw cell texts trimmed of surrounding whitespace, never numbers, for any
\* casing of the marker cell that the header locator accepts.
C15_IdentifierKeptAsText ==
    (pc = "processed" /\ title \notin ComplexTitles /\ res.kind = "table") =>
        \A i \in 1..Len(res.df.data) :
            \A j \in 1..Len(raw[h_idx + 1]) :
                IsMarkerCell(raw[h_idx + 1][j])
                    => res.df.data[i][j] = StrCell(Strip(RawCell(i, j)))

AggregateTokens == {<<"t", "o", "t", "a", "l">>, <<"s", "/", "t">>}

\* the identifier cell is that of a total or subtotal row
IsAggregateCell(s) == \E tok \in AggregateTokens : Contains(Lower(s), tok)

\* the rows of a table that a cleaned table must not hold: the cell under
\* the column named "Commune" is empty or an aggregate token
ExcludedRows(df) ==
    {i \in 1..Len(df.data) :
        \E j \in 1..Len(df.columns) :
            /\ df.columns[j] = tCommune
            /\ \/ Strip(df.data[i][j].s) = <<>>
               \/ IsAggregateCell(df.data[i][j].s)}

\* C16: no loaded table contains a row whose identifier cell is empty or
\* matches, case-insensitively, an aggregate token such as "TOTAL" or "S/T".
C16_NoAggregateRows ==
    pc = "loaded" => \A t \in DOMAIN all_data : ExcludedRows(all_data[t]) = {}

\* the data rows of a grid with header row h whose identifier cell is empty
\* or an aggregate token
AggregateRawRows(grid, h) ==
    {i \in (h + 3)..Len(grid) :
        \E j \in 1..Len(grid[h + 1]) :
            /\ IsMarkerCell(grid[h + 1][j])
            /\ Strip(grid[i][j]) = <<>> \/ IsAggregateCell(grid[i][j])}

\* worksheet A has the header "Commune", "Surface" at row 2 and worksheet B
\* has no header anywhere
IsScenario(wsA, wsB) ==
    /\ HasHeader(wsA.raw)
    /\ HeaderIndex(wsA.raw) = 1
    /\ wsA.raw[2] = <<tCommune, tSurface>>
    /\ ~HasHeader(wsB.raw)

\* C17: for a source of two worksheets where A has a valid "Commune" header
\* at row 2 and B has no header anywhere, the loader returns a mapping with
\* exactly one key, A's title, and the row count of that table is the number
\* of A's data rows below the two header rows minus A's aggregate rows.
C17_EndToEnd ==
    (pc = "loaded" /\ Len(worksheets) = 2) =>
        \A a, b \in 1..2 :
            (a # b /\ IsScenario(worksheets[a], worksheets[b])) =>
                /\ DOMAIN all_data = {worksheets[a].title}
                /\ Len(all_data[worksheets[a].title].data)
                      = Len(DataRows(worksheets[a].raw, 1))
                          - Cardinality(AggregateRawRows(worksheets[a].raw, 1))

NoSheetRaises ==
    \A i \in 1..Len(worksheets) :
        ProcessSheet(worksheets[i].title, worksheets[i].raw).kind # "raise"

\* C18: if processing one worksheet raises an exception (a table whose
\* column count does not fit its data rows, a specially-handled worksheet
\* with no data rows), only that worksheet is omitted: every other worksheet
\* that has a header is present in the returned mapping.
C18_OnlyRaisingSheetOmitted ==
    pc = "loaded" =>
        \A i \in 1..Len(worksheets) :
            ProcessSheet(worksheets[i].title, worksheets[i].raw).kind = "table"
                => worksheets[i].title \in DOMAIN all_data

\* C9: a worksheet with no row containing the marker, and likewise one whose
\* grid is empty, adds no key to the result mapping nor to the category
\* mapping, raises nothing, and does not prevent the other worksheets from
\* being loaded.
C9_NoHeaderNoEntry ==
    pc = "loaded" =>
        /\ \A i \in 1..Len(worksheets) :
              ~HasHeader(worksheets[i].raw) =>
                  /\ worksheets[i].title \notin DOMAIN all_data
                  /\ worksheets[i].title \notin DOMAIN sheet_categories
                  /\ ProcessSheet(worksheets[i].title, worksheets[i].raw).kind = "skip"
        /\ NoSheetRaises =>
              /\ ~err
              /\ DOMAIN all_data = HeaderedTitles
              /\ DOMAIN sheet_categories = HeaderedTitles

C9_Witness ==
    /\ pc = "loaded"
    /\ Len(worksheets) = 2
    /\ worksheets[1].raw # <<>>
    /\ ~HasHeader(worksheets[1].raw)
    /\ HasHeader(worksheets[2].raw)
    /\ ~err
    /\ DOMAIN all_data = {worksheets[2].title}
    /\ DOMAIN sheet_categories = {worksheets[2].title}

(***************************************************************************)
(* Properties of the script runs and of the cache.                         *)
(***************************************************************************)
OpenRaised == \E i \in 1..Len(opens) : opens[i] = "raised"

\* C19: if the source is unreachable (authorizing or opening it raises), the
\* loader returns an empty mapping, an error is shown to the user, the
\* script run stops before the sidebar or any page is rendered, and the
\* source is opened once only within that run.
C19_UnreachableSourceStopsRun ==
    OpenRaised =>
        /\ opens = <<"raised">>
        /\ all_data = EmptyDict
        /\ sheet_categories = EmptyDict
        /\ Len(shown) >= 1 /\ shown[1] = ErrLoad
        /\ rendered = <<>>
        /\ pc \in {"check", "idle"}
        /\ pc = "idle" => shown = <<ErrLoad, ErrNoData>>

C19_Witness ==
    /\ pc = "idle"
    /\ runs = 3
    /\ opens = <<"raised">>
    /\ all_data = EmptyDict
    /\ shown = <<ErrLoad, ErrNoData>>
    /\ rendered = <<>>

\* C20: during one cache window with no manual refresh every call of the
\* loader returns the same result and each worksheet's grid is fetched at
\* most once, whatever the reruns and page changes.
C20_OneLoadPerWindow ==
    /\ Cardinality(window.results) <= 1
    /\ \A t \in SourceTitles : window.fetches[t] <= 1

C20_Witness ==
    /\ pc = "idle"
    /\ WindowOpen(window, now)
    /\ window.calls >= 3
    /\ window.fetches["POPULATION"] = 1
    /\ page # DefaultPage
    /\ rendered = <<"sidebar", page>>
    /\ up
    /\ RunLoader(up, worksheets) \notin window.results

\* C21: the first loader call after a manual refresh or after the expiry of
\* the cache window returns the mapping the loader builds from the
\* spreadsheet as it is then, every worksheet it reads fetched anew in that
\* call; nothing of the previous mapping is carried over.
C21_RebuiltWholesale ==
    [][(pc = "init" /\ pc' = "check" /\ ~WindowOpen(window, now)) =>
          /\ all_data' = RunLoader(up, worksheets).data
          /\ sheet_categories' = RunLoader(up, worksheets).cats
          /\ cache' = Entry(RunLoader(up, worksheets), now)
          /\ \A t \in SourceTitles :
                window'.fetches[t] = IF t \in FetchedTitles(up, worksheets) THEN 1 ELSE 0]_vars

C21_Witness ==
    /\ pc = "check"
    /\ runs = 2
    /\ window.calls = 1
    /\ cache.at >= Ttl
    /\ up
    /\ worksheets = << [title |-> "POPULATION", raw |-> RunGridEdited] >>
    /\ DOMAIN all_data = {"POPULATION"}
    /\ Len(all_data["POPULATION"].data) = 2
    /\ window.fetches["POPULATION"] = 1

NoCodeOnEmptyMapping ==
    /\ (pc \in {"sidebar", "page"} \/ rendered # <<>>) => all_data # EmptyDict
    /\ (pc = "idle" /\ all_data = EmptyDict) => ~SidebarShown

ServedEmptyAgain ==
    (pc = "init" /\ pc' = "check" /\ WindowOpen(window, now)
        /\ \A r \in window.results : r.data = EmptyDict)
    => (opens' = opens /\ cache' = cache /\ all_data' = EmptyDict)

\* C26: no sidebar or page code runs with an empty mapping: a run whose
\* loader call returned an empty mapping stops at initialisation, with no
\* refresh button on the screen; the empty result is memoized like a
\* successful one, so every rerun inside the cache window is served it and
\* stops at the same point without running the loader's body.
C26_EmptyMappingStops == []NoCodeOnEmptyMapping /\ [][ServedEmptyAgain]_vars

C26_Witness ==
    /\ pc = "idle"
    /\ runs >= 3
    /\ window.calls >= 3
    /\ WindowOpen(window, now)
    /\ all_data = EmptyDict
    /\ opens = <<>>
    /\ rendered = <<>>
    /\ shown = <<ErrLoad, ErrNoData>>
    /\ up
    /\ RunLoader(up, worksheets).data # EmptyDict

(***************************************************************************)
(* Further properties of the column names and of the load.                 *)
(***************************************************************************)
\* the positions whose category and sub-label are both empty
UnnamedPositions ==
    {i \in 1..Len(cols) : LastCategory(i) = <<>> /\ SubLabel(i) = <<>>}

\* C24: a column position whose category and sub-label are both empty
\* receives a placeholder name that encodes its position, so two such
\* positions of one table receive different names.
C24_PositionalPlaceholder ==
    pc = "named" =>
        \A i, j \in UnnamedPositions : i # j => cols[i] # cols[j]

\* the categories, by position in the declaration, that list the title
ListingCategories(t) == {k \in 1..Len(Categories) : t \in Categories[k].sheets}

\* C25: after every load that returns, the result mapping and the category
\* mapping have the same key set, each loaded worksheet has one category,
\* the first in declaration order whose title list contains the worksheet
\* title, and 'autres' exactly when no list contains it.
C25_CategoryOfEachSheet ==
    pc = "loaded" =>
        /\ DOMAIN sheet_categories = DOMAIN all_data
        /\ \A t \in DOMAIN sheet_categories :
              /\ ListingCategories(t) = {} <=> sheet_categories[t] = "autres"
              /\ \A k \in ListingCategories(t) :
                    (\A m \in ListingCategories(t) : k <= m)
                        => sheet_categories[t] = Categories[k].cat

C25_Witness ==
    /\ pc = "loaded"
    /\ DOMAIN all_data = {"Fourrages", "Feuil1"}
    /\ DOMAIN sheet_categories = {"Fourrages", "Feuil1"}
    /\ sheet_categories["Fourrages"] = "fourrages"
    /\ sheet_categories["Feuil1"] = "autres"

\* the header row of a grid that has one
HeaderRowOf(grid) == grid[HeaderIndex(grid) + 1]

\* at least one data row below the two header rows, and as many non-empty
\* header cells as the rows are wide
SpecialFits(grid) ==
    /\ Len(grid) >= HeaderIndex(grid) + 3
    /\ \A j \in 1..Len(HeaderRowOf(grid)) : Strip(HeaderRowOf(grid)[j]) # <<>>

IsSpecial(ws) == ws.title \in ComplexTitles /\ HasHeader(ws.raw)

\* C29: for the five specially handled titles the table is built from the
\* non-empty cells of the header row only (the row below is ignored and
\* nothing is forward-filled); the table is produced only when there is at
\* least one data row below the two header rows and the number of non-empty
\* header cells equals the data row width, otherwise the whole load returns
\* the two empty mappings.
C29_SpecialTables ==
    pc = "loaded" =>
        \A i \in 1..Len(worksheets) :
            IsSpecial(worksheets[i]) =>
                /\ worksheets[i].title \in DOMAIN all_data =>
                      /\ SpecialFits(worksheets[i].raw)
                      /\ SynthesizedNames(all_data[worksheets[i].title])
                            = [j \in 1..Len(HeaderRowOf(worksheets[i].raw)) |->
                                 Strip(HeaderRowOf(worksheets[i].raw)[j])]
                /\ ~SpecialFits(worksheets[i].raw) =>
                      (all_data = EmptyDict /\ sheet_categories = EmptyDict /\ err)

C29_Witness ==
    /\ pc = "loaded"
    /\ Len(worksheets) = 2
    /\ worksheets[1].title = "Fourrages"
    /\ worksheets[1].raw
          = <<<<tCommune, tSurface>>, <<tSurface, tRendement>>, DataRow(tTanaqob, 2)>>
    /\ worksheets[2].title = "POPULATION"
    /\ worksheets[2].raw = worksheets[1].raw
    /\ all_data["Fourrages"].columns = <<tCommune, tSurface, tCommuneId>>
    /\ all_data["POPULATION"].columns
          = <<tCommune \o Separator \o tSurface, tSurface \o Separator \o tRendement>>


(***************************************************************************)
(* The consumers of the mapping.                                           *)
(***************************************************************************)
\* a page's own steps
InPage == pc \in {"page", "dialog", "llm"}

\* the run reads the mapping the cache holds
MappingKept ==
    /\ cache.present
    /\ cache.value.data = all_data
    /\ cache.value.cats = sheet_categories

\* C22: a failure of a consumer of the mapping (the call of the language
\* model raising, a chart drawn from a table that lacks the expected
\* column) is caught where it occurs and shown as a message in the page: no
\* run ends in an exception that escapes the page, and while and after a
\* page runs the mapping and the cache entry are the ones the run loaded.
C22_ConsumerFailuresCaught ==
    /\ crashed = NoError
    /\ (InPage \/ (pc = "idle" /\ SidebarShown)) => MappingKept

\* the failure of the language model is caught and shown in the page
C22_ModelFailureShown ==
    /\ pc = "idle" /\ page = "Assistant IA"
    /\ shown # <<>> /\ shown[Len(shown)] = ErrIA
    /\ crashed = NoError /\ MappingKept
    /\ Len(appended) = 1

\* the chart of the visualisations raises KeyError past the page's code
C22_ChartEscapes ==
    /\ pc = "idle" /\ page = "Visualisations"
    /\ crashed = ErrKey /\ MappingKept
    /\ "Légumineuses" \in DOMAIN all_data
    /\ ~HasColumn(all_data["Légumineuses"], tCommune)


(***************************************************************************)
(* The history of the dialogue.                                            *)
(***************************************************************************)
\* what a run has appended: nothing, a question, or a question and its answer
RunAppends ==
    /\ Len(appended) <= 2
    /\ Len(appended) >= 1 => appended[1].role = "user"
    /\ Len(appended) = 2 => appended[2].role = "assistant"
    /\ Len(appended) <= Len(ia_history)
    /\ SubSeq(ia_history, Len(ia_history) - Len(appended) + 1, Len(ia_history)) = appended

\* a run of the assistant page that drew its chat input and has ended
PageEnded == pc = "idle" /\ page = "Assistant IA" /\ OnScreen("chat_input")

\* the outcome of the call decides what the run has appended
AppendsByOutcome ==
    PageEnded =>
        /\ Len(appended) = 0 <=> shown = <<>>
        /\ Len(appended) = 1 <=> (shown # <<>> /\ shown[Len(shown)] = ErrIA)
        /\ Len(appended) = 2 <=> (shown # <<>> /\ shown[Len(shown)] \in Responses)

AnswersFollowQuestions ==
    \A i \in 1..Len(ia_history) :
        ia_history[i].role = "assistant" => (i > 1 /\ ia_history[i - 1].role = "user")

\* C27: the history is append-only over the runs of a session: a run of
\* the assistant page appends nothing (no question), one user entry (the
\* call failed) or a user entry followed by one assistant entry (the call
\* succeeded); every assistant entry comes right after a user entry; and
\* only the assistant page's own steps change the history, so that neither
\* a page change nor the manual refresh removes or alters an entry.
C27_AppendOnlyHistory ==
    [][/\ IsPrefix(ia_history, ia_history')
       /\ RunAppends' /\ AppendsByOutcome' /\ AnswersFollowQuestions'
       /\ (page' # page \/ clicked \/ clicked' \/ pc' = "init")
              => ia_history' = ia_history]_vars

\* a question and its answer, then a question whose call failed, are still
\* in the history after the manual refresh
C27_Witness ==
    /\ PageEnded
    /\ window.calls = 1 /\ opens = <<"opened">> /\ runs = 6
    /\ Len(ia_history) = 3
    /\ ia_history[2].role = "assistant" /\ ia_history[3].role = "user"
    /\ appended = <<>>


(***************************************************************************)
(* The suggested questions.                                                *)
(***************************************************************************)
\* outside the page's second column no suggested question is pending
NoPendingLeft == pc # "dialog" => ia_question = NoText

\* the run of a click, past the second column, has appended the suggestion
ClickAnswered ==
    (pressed # NoText /\ pc \in {"llm", "idle"} /\ OnScreen("chat_input")) =>
        /\ appended # <<>>
        /\ appended[1] = UserEntry(pressed)
        /\ Cardinality({i \in 1..Len(appended) : appended[i].role = "user"}) = 1

\* the second column answers the pending suggestion, whatever was typed
PendingWins ==
    (pc = "dialog" /\ pc' # "init" /\ ia_question # NoText) =>
        /\ ia_history' = Append(ia_history, UserEntry(ia_question))
        /\ ia_question' = NoText

\* C28: a pending suggested question never survives a run: when a run of
\* the assistant page is over the session holds no 'ia_question', each
\* click on a suggestion button makes exactly one user entry with the
\* suggestion's text, and a pending suggestion is used in place of any
\* question typed for the same run.
C28_PendingNeverSurvives ==
    [][NoPendingLeft' /\ ClickAnswered' /\ PendingWins]_vars

\* a run abandoned between the two columns has left the suggestion pending,
\* and the run of another page ends with it
C28_PendingSurvives ==
    /\ pc = "idle" /\ page # "Assistant IA"
    /\ ia_question \in SuggestionsOf(DefaultCategory)
    /\ ia_history = <<>>

\* the suggestion left pending is answered in place of the typed question
C28_TypedQuestionReplaced ==
    /\ pc = "llm" /\ typed \in Questions /\ pressed = NoText
    /\ appended # <<>> /\ appended[1].content \in SuggestionsOf(category)


(***************************************************************************)
(* The prompt and the answer.                                              *)
(***************************************************************************)
\* the part of the prompt between the template's parts
Excerpt == SubSeq(prompt, 4, Len(prompt) - 3)

\* the sheets of the selected domain that are keys of the mapping
Chosen ==
    IF category = "Analyse Complète"
    THEN {SheetOrder(worksheets, all_data)[i] :
             i \in 1..Min(CompleteSheets, Len(SheetOrder(worksheets, all_data)))}
    ELSE {t \in DOMAIN all_data :
             \E k \in 1..Len(IaCategories) :
                /\ IaCategories[k].name = category
                /\ \E i \in 1..Len(IaCategories[k].sheets) : IaCategories[k].sheets[i] = t}

\* the lines an excerpt may hold: blank, the mark of a chosen sheet, the
\* names of its columns, one of its first ten rows
AllowedLines ==
    {<<"\n">>}
    \cup {SheetMark(t) \o <<"\n">> : t \in Chosen}
    \cup {CsvLine([j \in 1..Len(all_data[t].columns) |-> CsvText(all_data[t].columns[j])]) :
             t \in Chosen}
    \cup UNION {{CsvLine([j \in 1..Len(all_data[t].data[i]) |-> CsvCell(all_data[t].data[i][j])]) :
                    i \in 1..Min(HeadRows, Len(all_data[t].data))} : t \in Chosen}

LineEnds(e) == {0} \cup {i \in 1..Len(e) : e[i] = "\n"}

NextEnd(e, a) == CHOOSE b \in LineEnds(e) : b > a /\ \A c \in LineEnds(e) : c > a => b <= c

OnlyAllowedLines(e) ==
    \A a \in LineEnds(e) :
        IF \E b \in LineEnds(e) : b > a
        THEN SubSeq(e, a + 1, NextEnd(e, a)) \in AllowedLines
        ELSE \E l \in AllowedLines : IsPrefix(SubSeq(e, a + 1, Len(e)), l)

\* C23: the prompt sent to the language model is one string that holds the
\* user's question and, as excerpt of the data, only head rows (ten at most
\* per table) of the sheets of the selected domain that are keys of the
\* mapping, the excerpt cut to 4000 characters at most; the text of the
\* answer is shown and stored in the history as it came.
C23_PromptAndResponse ==
    /\ prompt # <<>> =>
          /\ appended # <<>>
          /\ prompt[Len(prompt) - 1] = appended[1].content
          /\ prompt[2] = category
          /\ Len(Excerpt) <= ExcerptLimit
          /\ OnlyAllowedLines(Excerpt)
    /\ pc = "llm" => prompt # <<>>
    /\ response # NoText =>
          /\ shown[Len(shown)] = response
          /\ ia_history[Len(ia_history)] = [role |-> "assistant", content |-> response]

\* the excerpt is cut at the limit inside the rows of a table of twelve
\* rows, a sheet of the mapping is not of the domain, and the answer is kept
C23_Witness ==
    /\ pc = "idle" /\ response \in Responses
    /\ Len(Excerpt) = ExcerptLimit
    /\ Len(BuildPromptUncut(category, SheetOrder(worksheets, all_data), all_data, typed))
          > Len(prompt)
    /\ \E t \in Chosen : Len(all_data[t].data) > HeadRows
    /\ DOMAIN all_data \ Chosen # {}
    /\ typed \in Questions /\ ia_question = NoText

====
